---- MODULE Spec2Model ----
(***************************************************************************)
(* CapillaryAnnotator: the image analysis pipeline.                        *)
(*                                                                         *)
(*   loop detection   adaptiveThreshold, morphologyOpen,                   *)
(*                    connectedComponents, analyzeBlob, isValidLoop,       *)
(*                    filterOutermost                                      *)
(*   enhancement      applyCLAHE, adjustBrightnessContrast                 *)
(*   deskew           calculateSkewAngle                                   *)
(*                                                                         *)
(* Buffers are functions over 0..n-1 so that the index arithmetic of the   *)
(* source (y * width + x) is kept.  Every pipeline function is an operator *)
(* computed the way the code computes it; one specification per function   *)
(* draws its input in Init and applies it in an action.                    *)
(***************************************************************************)
EXTENDS Integers, Sequences, FiniteSets, TLC

VARIABLES
    pc,          \* position of the call under study
    width,       \* buffer width
    height,      \* buffer height
    windowSize,  \* adaptive threshold window
    gray,        \* grayscale buffer
    binary,      \* binary mask
    opened,      \* result of morphologyOpen
    labels,      \* label map
    count,       \* count returned by connectedComponents
    blob,        \* BlobStats given to isValidLoop
    valid,       \* result of isValidLoop
    blobs,       \* list of BlobStats given to filterOutermost
    outermost,   \* result of filterOutermost
    imageData,   \* ImageData given to an enhancement stage
    clipLimit,   \* applyCLAHE clipLimit, a fraction <<numerator, denominator>>
    tileSize,    \* applyCLAHE tileSize
    enhanced,    \* ImageData returned by an enhancement stage
    angle,       \* calculateSkewAngle: loop variable, in tenths of a degree
    bestAngle,   \* calculateSkewAngle: bestAngle, in tenths of a degree
    maxVariance, \* calculateSkewAngle: maxVariance
    coarseBest,  \* calculateSkewAngle: coarseBest, in tenths of a degree
    history,     \* calculateSkewAngle: the candidates evaluated so far
    entry,       \* pipeline call: the entry point called
    ctx,         \* pipeline call: what canvas.getContext('2d') returned
    promise,     \* pipeline call: the promise returned to the caller
    uncaught,    \* pipeline call: an exception escaped to the event loop
    image,       \* App: image
    files,       \* App: files
    currentFileIndex,     \* App: currentFileIndex
    patientId,            \* App: patientId
    subdirectories,       \* App: subdirectories
    selectedSubdirectory, \* App: selectedSubdirectory
    activeTool,  \* App: activeTool
    loops,       \* App: loops
    secondaries, \* App: secondaries
    roi,         \* App: roi
    rulers,      \* App: rulers
    scale,       \* App: scale
    rotation,    \* App: rotation
    isEnhanced,  \* App: isEnhanced
    enhancedImageUrl,     \* App: enhancedImageUrl
    isEnhancing, \* App: isEnhancing
    isAligning,  \* App: isAligning
    rulerStart,  \* AnnotationCanvas: rulerStart
    pending,     \* App: handlers suspended at an await
    log          \* what has been called and clicked so far

detectVars == <<width, height, windowSize, gray, binary, opened, labels, count,
                blob, valid, blobs, outermost>>

enhanceVars == <<imageData, clipLimit, tileSize, enhanced>>

skewVars == <<angle, bestAngle, maxVariance, coarseBest, history>>

callVars == <<entry, ctx, promise, uncaught>>

fileVars == <<files, currentFileIndex, patientId, subdirectories,
              selectedSubdirectory>>

annotationVars == <<loops, secondaries, roi, rulers, scale, rotation>>

viewVars == <<image, activeTool, isEnhanced, enhancedImageUrl, isEnhancing,
              isAligning, rulerStart, pending, log>>

appVars == <<fileVars, annotationVars, viewVars>>

vars == <<pc, detectVars, enhanceVars, skewVars, callVars, appVars>>

(***************************************************************************)
(* Bounds                                                                  *)
(***************************************************************************)
MaxMaskDim == 5
MaxMaskCells == 15
MaxGrayDim == 4
MaxGrayCells == 9
MaxVariance == 2
MaxLoops == 3
MaxFiles == 2
MaxAligns == 2

GrayLevels == {0, 3, 10}
WindowSizes == {3, 15}

(***************************************************************************)
(* Configuration for detection                                             *)
(* minAspectRatio 1.5 and minSolidity 0.6 are kept as exact fractions.     *)
(***************************************************************************)
CONFIG == [resizeWidth    |-> 800,
           windowSize     |-> 15,
           c              |-> 2,
           minArea        |-> 100,
           maxArea        |-> 2000,
           minAspectRatio |-> <<3, 2>>,
           minSolidity    |-> <<3, 5>>,
           columnWidth    |-> 50]

Min(a, b) == IF a < b THEN a ELSE b
Max(a, b) == IF a > b THEN a ELSE b

Dims(maxDim, maxCells) == {d \in (1..maxDim) \X (1..maxDim) : d[1] * d[2] <= maxCells}

NoBuffer == <<>>
NoBlob == [area |-> 0, minX |-> 0, maxX |-> 0, minY |-> 0, maxY |-> 0,
           centerX |-> <<0, 1>>, centerY |-> <<0, 1>>]

(***************************************************************************)
(* adaptiveThreshold                                                       *)
(***************************************************************************)

\* The integral image: one raster pass with a running row sum.
RECURSIVE IntegralPass(_, _, _, _, _)
IntegralPass(g, w, h, i, acc) ==
    IF i >= w * h THEN acc.integral
    ELSE LET x == i % w
             y == i \div w
             sum == (IF x = 0 THEN 0 ELSE acc.sum) + g[y * w + x]
             v == IF y = 0 THEN sum ELSE sum + acc.integral[(y - 1) * w + x]
         IN IntegralPass(g, w, h, i + 1,
                [sum |-> sum, integral |-> [acc.integral EXCEPT ![y * w + x] = v]])

Integral(g, w, h) ==
    IntegralPass(g, w, h, 0, [sum |-> 0, integral |-> [i \in 0..(w * h - 1) |-> 0]])

\* getSum without the corner term added back.
getSum_noCorner(integral, w, h, x1a, y1a, x2a, y2a) ==
    LET x1 == Max(0, x1a)
        y1 == Max(0, y1a)
        x2 == Min(w - 1, x2a)
        y2 == Min(h - 1, y2a)
        A == integral[y2 * w + x2]
        B == IF y1 > 0 THEN integral[(y1 - 1) * w + x2] ELSE 0
        C == IF x1 > 0 THEN integral[y2 * w + (x1 - 1)] ELSE 0
    IN A - B - C

getSum(integral, w, h, x1a, y1a, x2a, y2a) ==
    LET x1 == Max(0, x1a)
        y1 == Max(0, y1a)
        x2 == Min(w - 1, x2a)
        y2 == Min(h - 1, y2a)
        A == integral[y2 * w + x2]
        B == IF y1 > 0 THEN integral[(y1 - 1) * w + x2] ELSE 0
        C == IF x1 > 0 THEN integral[y2 * w + (x1 - 1)] ELSE 0
        D == IF x1 > 0 /\ y1 > 0 THEN integral[(y1 - 1) * w + (x1 - 1)] ELSE 0
    IN A - B - C + D

\* ThresholdPixel with the constant subtracted from the mean.
ThresholdPixel_minusC(g, integral, w, h, win, x, y) ==
    LET offset == win \div 2
        x1 == x - offset
        y1 == y - offset
        x2 == x + offset
        y2 == y + offset
        cnt == (Min(w - 1, x2) - Max(0, x1) + 1) * (Min(h - 1, y2) - Max(0, y1) + 1)
        sum == getSum(integral, w, h, x1, y1, x2, y2)
    IN IF g[y * w + x] * cnt > sum - CONFIG.c * cnt THEN 1 ELSE 0

\* gray > sum / count + c, compared exactly: count > 0, so the test is
\* gray * count > sum + c * count.
ThresholdPixel(g, integral, w, h, win, x, y) ==
    LET offset == win \div 2
        x1 == x - offset
        y1 == y - offset
        x2 == x + offset
        y2 == y + offset
        cnt == (Min(w - 1, x2) - Max(0, x1) + 1) * (Min(h - 1, y2) - Max(0, y1) + 1)
        sum == getSum(integral, w, h, x1, y1, x2, y2)
    IN IF g[y * w + x] * cnt > sum + CONFIG.c * cnt THEN 1 ELSE 0

adaptiveThreshold(g, w, h, win) ==
    LET integral == Integral(g, w, h)
    IN [i \in 0..(w * h - 1) |-> ThresholdPixel(g, integral, w, h, win, i % w, i \div w)]

(***************************************************************************)
(* morphologyOpen                                                          *)
(***************************************************************************)
Interior(w, h, i) ==
    LET x == i % w
        y == i \div w
    IN y >= 1 /\ y < h - 1 /\ x >= 1 /\ x < w - 1

\* Erode without the test of the neighbour below.
Erode_noBottom(b, w, h) ==
    [idx \in 0..(w * h - 1) |->
        IF Interior(w, h, idx)
           /\ b[idx] # 0
           /\ b[idx - 1] # 0 /\ b[idx + 1] # 0
           /\ b[idx - w] # 0
        THEN 1 ELSE 0]

Erode(b, w, h) ==
    [idx \in 0..(w * h - 1) |->
        IF Interior(w, h, idx)
           /\ b[idx] # 0
           /\ b[idx - 1] # 0 /\ b[idx + 1] # 0
           /\ b[idx - w] # 0 /\ b[idx + w] # 0
        THEN 1 ELSE 0]

\* Dilate with the pixel two to the left added to the cross.
Dilate_reachTwo(eroded, w, h) ==
    [idx \in 0..(w * h - 1) |->
        IF Interior(w, h, idx)
           /\ (eroded[idx] # 0
               \/ eroded[idx - 1] # 0 \/ eroded[idx + 1] # 0
               \/ eroded[idx - w] # 0 \/ eroded[idx + w] # 0
               \/ eroded[idx - 2] # 0)
        THEN 1 ELSE 0]

Dilate(eroded, w, h) ==
    [idx \in 0..(w * h - 1) |->
        IF Interior(w, h, idx)
           /\ (eroded[idx] # 0
               \/ eroded[idx - 1] # 0 \/ eroded[idx + 1] # 0
               \/ eroded[idx - w] # 0 \/ eroded[idx + w] # 0)
        THEN 1 ELSE 0]

morphologyOpen(b, w, h) == Dilate(Erode(b, w, h), w, h)

(***************************************************************************)
(* connectedComponents                                                     *)
(***************************************************************************)
RECURSIVE find(_, _)
find(parent, i) == IF i # parent[i] THEN find(parent, parent[i]) ELSE i

\* union that links the labels themselves instead of their roots.
union_noFind(parent, i, j) ==
    IF i # j THEN [parent EXCEPT ![j] = i] ELSE parent

union(parent, i, j) ==
    LET rootI == find(parent, i)
        rootJ == find(parent, j)
    IN IF rootI # rootJ THEN [parent EXCEPT ![rootJ] = rootI] ELSE parent

\* st = [labels, currentLabel, parent]; parent is indexed from 0 (parent[0] = 0).
FirstPassPixel(b, w, st, i) ==
    LET x == i % w
        y == i \div w
        left == IF x > 0 THEN st.labels[y * w + (x - 1)] ELSE 0
        top == IF y > 0 THEN st.labels[(y - 1) * w + x] ELSE 0
    IN IF b[y * w + x] = 0 THEN st
       ELSE IF left = 0 /\ top = 0 THEN
            [labels |-> [st.labels EXCEPT ![y * w + x] = st.currentLabel + 1],
             currentLabel |-> st.currentLabel + 1,
             parent |-> [k \in 0..(st.currentLabel + 1) |->
                            IF k = st.currentLabel + 1 THEN k ELSE st.parent[k]]]
       ELSE IF left # 0 /\ top = 0 THEN
            [st EXCEPT !.labels = [st.labels EXCEPT ![y * w + x] = left]]
       ELSE IF left = 0 /\ top # 0 THEN
            [st EXCEPT !.labels = [st.labels EXCEPT ![y * w + x] = top]]
       ELSE [st EXCEPT !.labels = [st.labels EXCEPT ![y * w + x] = Min(left, top)],
                       !.parent = union(st.parent, left, top)]

RECURSIVE FirstPass(_, _, _, _, _)
FirstPass(b, w, h, st, i) ==
    IF i >= w * h THEN st
    ELSE FirstPass(b, w, h, FirstPassPixel(b, w, st, i), i + 1)

\* second pass leaving the provisional labels in place
SecondPass_provisional(st) == st.labels

SecondPass(st) ==
    [i \in DOMAIN st.labels |->
        IF st.labels[i] > 0 THEN find(st.parent, st.labels[i]) ELSE st.labels[i]]

\* connectedComponents returning the number of distinct roots as its count.
connectedComponents_rootCount(b, w, h) ==
    LET st == FirstPass(b, w, h,
                  [labels |-> [i \in 0..(w * h - 1) |-> 0],
                   currentLabel |-> 0,
                   parent |-> [k \in 0..0 |-> 0]], 0)
    IN [labels |-> SecondPass(st),
        count |-> Cardinality({find(st.parent, k) : k \in 1..st.currentLabel})]

connectedComponents(b, w, h) ==
    LET st == FirstPass(b, w, h,
                  [labels |-> [i \in 0..(w * h - 1) |-> 0],
                   currentLabel |-> 0,
                   parent |-> [k \in 0..0 |-> 0]], 0)
    IN [labels |-> SecondPass(st), count |-> st.currentLabel]

(***************************************************************************)
(* BlobStats, isValidLoop                                                  *)
(* centerX and centerY are the exact fractions sumX / area and sumY / area,*)
(* kept as <<numerator, denominator>>.                                     *)
(***************************************************************************)

\* The BlobStats analyzeBlob returns for a solid w x h rectangle whose top
\* left pixel is (x0, y0): area w * h, centroid (x0 + (w-1)/2, y0 + (h-1)/2).
SolidRect(x0, y0, w, h) ==
    [area |-> w * h,
     minX |-> x0, maxX |-> x0 + w - 1,
     minY |-> y0, maxY |-> y0 + h - 1,
     centerX |-> <<2 * x0 + w - 1, 2>>,
     centerY |-> <<2 * y0 + h - 1, 2>>]

\* isValidLoop with the aspect ratio taken as width / height.
isValidLoop_widthOverHeight(b) ==
    IF b.area < CONFIG.minArea \/ b.area > CONFIG.maxArea THEN FALSE
    ELSE LET w == b.maxX - b.minX + 1
             h == b.maxY - b.minY + 1
             bboxArea == w * h
         IN IF w * CONFIG.minAspectRatio[2] < CONFIG.minAspectRatio[1] * h THEN FALSE
            ELSE IF b.area * CONFIG.minSolidity[2] < CONFIG.minSolidity[1] * bboxArea
                 THEN FALSE
                 ELSE TRUE

\* height / width < 1.5 is h * 2 < 3 * w and area / bboxArea < 0.6 is
\* area * 5 < 3 * bboxArea: 1.5 is a double, and the double nearest to 3/5 is
\* both the literal 0.6 and the quotient of any area / bboxArea equal to 3/5.
isValidLoop(b) ==
    IF b.area < CONFIG.minArea \/ b.area > CONFIG.maxArea THEN FALSE
    ELSE LET w == b.maxX - b.minX + 1
             h == b.maxY - b.minY + 1
             bboxArea == w * h
         IN IF h * CONFIG.minAspectRatio[2] < CONFIG.minAspectRatio[1] * w THEN FALSE
            ELSE IF b.area * CONFIG.minSolidity[2] < CONFIG.minSolidity[1] * bboxArea
                 THEN FALSE
                 ELSE TRUE

(***************************************************************************)
(* filterOutermost                                                         *)
(***************************************************************************)
\* null, as a value comparable with a BlobStats record
Null == [null |-> TRUE]

FracFloorDiv(f, d) == f[1] \div (f[2] * d)
FracGreater(f, g) == f[1] * g[2] > g[1] * f[2]

CeilDiv(a, b) == (a + b - 1) \div b

SkylineStep(skyline, numColumns, b) ==
    LET colIndex == FracFloorDiv(b.centerX, CONFIG.columnWidth)
    IN IF colIndex >= 0 /\ colIndex < numColumns
       THEN LET currentBest == skyline[colIndex]
            IN IF currentBest = Null \/ FracGreater(b.centerY, currentBest.centerY)
               THEN [skyline EXCEPT ![colIndex] = b]
               ELSE skyline
       ELSE skyline

RECURSIVE SkylineFold(_, _, _, _)
SkylineFold(bs, skyline, numColumns, k) ==
    IF k > Len(bs) THEN skyline
    ELSE SkylineFold(bs, SkylineStep(skyline, numColumns, bs[k]), numColumns, k + 1)

RECURSIVE FilterNulls(_, _, _)
FilterNulls(skyline, numColumns, col) ==
    IF col >= numColumns THEN <<>>
    ELSE (IF skyline[col] # Null THEN <<skyline[col]>> ELSE <<>>)
         \o FilterNulls(skyline, numColumns, col + 1)

\* filterOutermost keeping the smallest centerY of each column.
filterOutermost_minY(bs, imageWidth) ==
    IF Len(bs) = 0 THEN <<>>
    ELSE LET numColumns == CeilDiv(imageWidth, CONFIG.columnWidth)
             Step(sk, b) ==
                 LET colIndex == FracFloorDiv(b.centerX, CONFIG.columnWidth)
                 IN IF sk[colIndex] = Null \/ FracGreater(sk[colIndex].centerY, b.centerY)
                    THEN [sk EXCEPT ![colIndex] = b] ELSE sk
             RECURSIVE Fold(_, _)
             Fold(sk, k) == IF k > Len(bs) THEN sk ELSE Fold(Step(sk, bs[k]), k + 1)
         IN FilterNulls(Fold([col \in 0..(numColumns - 1) |-> Null], 1), numColumns, 0)

filterOutermost(bs, imageWidth) ==
    IF Len(bs) = 0 THEN <<>>
    ELSE LET numColumns == CeilDiv(imageWidth, CONFIG.columnWidth)
             skyline == SkylineFold(bs, [col \in 0..(numColumns - 1) |-> Null],
                                    numColumns, 1)
         IN FilterNulls(skyline, numColumns, 0)

(***************************************************************************)
(* Specifications of the detection stages                                  *)
(***************************************************************************)
IdleDetect ==
    /\ width = 0 /\ height = 0 /\ windowSize = CONFIG.windowSize
    /\ gray = NoBuffer /\ binary = NoBuffer /\ opened = NoBuffer
    /\ labels = NoBuffer /\ count = 0
    /\ blob = NoBlob /\ valid = FALSE
    /\ blobs = <<>> /\ outermost = <<>>

NoImage == [width |-> 0, height |-> 0, data |-> <<>>]

IdleEnhance ==
    /\ imageData = NoImage /\ enhanced = NoImage
    /\ clipLimit = <<5, 2>> /\ tileSize = 8

\* history: the candidates evaluated so far, the greatest variance returned so
\* far and the first candidate that returned it.
NoHistory == [angles |-> {}, max |-> -1, first |-> 0]

IdleSkew ==
    /\ angle = 0 /\ bestAngle = 0 /\ maxVariance = -1 /\ coarseBest = 0
    /\ history = NoHistory

\* No pipeline call has been made.
NoPromise == [state |-> "none", value |-> Null, settled |-> 0]

IdleCall ==
    /\ entry = "none" /\ ctx = "unasked" /\ promise = NoPromise
    /\ uncaught = FALSE

\* The state of App and AnnotationCanvas when they are mounted (useState).
IdleFiles ==
    /\ files = <<>> /\ currentFileIndex = -1 /\ patientId = <<>>
    /\ subdirectories = <<>> /\ selectedSubdirectory = ""

IdleAnnotations ==
    /\ loops = <<>> /\ secondaries = <<>> /\ roi = Null /\ rulers = <<>>
    /\ scale = 1 /\ rotation = 0

\* log: what has happened to the image now loaded.
\*   succeeded         enhanceImage has resolved for it
\*   runsAfterSuccess  calls of enhanceImage made after that
\*   aligned           the image whose skew angle auto-align last put into
\*                     rotation, while nothing else has set rotation since
\*   alignsInRow       successful auto-aligns in a row
\*   clicks            the points clicked on the image since the ruler tool
\*                     was activated
\*   rulersAtStart     the rulers when it was activated
\*   handed            the list last given to updateLoopClassifications on
\*                     its own
\*   left              per file index, the annotations when it was last left
\*   restored          the file just selected had been left before
\*   chosen            the directory last picked and the examination asked for
NoLog ==
    [succeeded |-> FALSE, runsAfterSuccess |-> 0, aligned |-> Null,
     alignsInRow |-> 0, clicks |-> <<>>, rulersAtStart |-> <<>>, left |-> <<>>,
     restored |-> FALSE, chosen |-> Null, handed |-> Null]

IdleView ==
    /\ image = Null /\ activeTool = "select"
    /\ isEnhanced = FALSE /\ enhancedImageUrl = Null /\ isEnhancing = FALSE
    /\ isAligning = FALSE /\ rulerStart = Null
    /\ pending = {} /\ log = NoLog

IdleApp == IdleFiles /\ IdleAnnotations /\ IdleView

\* -- adaptiveThreshold applied to an arbitrary grayscale buffer
InitThreshold ==
    /\ pc = "start"
    /\ \E d \in Dims(MaxGrayDim, MaxGrayCells) :
          /\ width = d[1] /\ height = d[2]
          /\ gray \in [0..(d[1] * d[2] - 1) -> GrayLevels]
    /\ windowSize \in WindowSizes
    /\ binary = NoBuffer /\ opened = NoBuffer
    /\ labels = NoBuffer /\ count = 0
    /\ blob = NoBlob /\ valid = FALSE
    /\ blobs = <<>> /\ outermost = <<>>
    /\ IdleEnhance /\ IdleSkew /\ IdleCall /\ IdleApp

AdaptiveThreshold ==
    /\ pc = "start"
    /\ binary' = adaptiveThreshold(gray, width, height, windowSize)
    /\ pc' = "thresholded"
    /\ UNCHANGED <<width, height, windowSize, gray, opened, labels, count,
                   blob, valid, blobs, outermost,
                   enhanceVars, skewVars,
                 callVars, appVars>>

NextThreshold == AdaptiveThreshold

SpecThreshold == InitThreshold /\ [][NextThreshold]_vars

\* -- morphologyOpen applied to an arbitrary binary mask
InitMask ==
    /\ pc = "start"
    /\ \E d \in Dims(MaxMaskDim, MaxMaskCells) :
          /\ width = d[1] /\ height = d[2]
          /\ binary \in [0..(d[1] * d[2] - 1) -> {0, 1}]
    /\ windowSize = CONFIG.windowSize
    /\ gray = NoBuffer /\ opened = NoBuffer
    /\ labels = NoBuffer /\ count = 0
    /\ blob = NoBlob /\ valid = FALSE
    /\ blobs = <<>> /\ outermost = <<>>
    /\ IdleEnhance /\ IdleSkew /\ IdleCall /\ IdleApp

MorphologyOpen ==
    /\ pc = "start"
    /\ opened' = morphologyOpen(binary, width, height)
    /\ pc' = "opened"
    /\ UNCHANGED <<width, height, windowSize, gray, binary, labels, count,
                   blob, valid, blobs, outermost,
                   enhanceVars, skewVars,
                 callVars, appVars>>

NextOpen == MorphologyOpen

SpecOpen == InitMask /\ [][NextOpen]_vars

\* -- connectedComponents applied to an arbitrary binary mask
ConnectedComponents ==
    /\ pc = "start"
    /\ LET r == connectedComponents(binary, width, height)
       IN labels' = r.labels /\ count' = r.count
    /\ pc' = "labeled"
    /\ UNCHANGED <<width, height, windowSize, gray, binary, opened,
                   blob, valid, blobs, outermost,
                   enhanceVars, skewVars,
                 callVars, appVars>>

NextCC == ConnectedComponents

SpecCC == InitMask /\ [][NextCC]_vars

\* -- isValidLoop applied to the statistics of a blob
BlobAreas == {99, 100, 101, 119, 120, 150, 400, 1500, 1999, 2000, 2001}
BoxSides == {5, 10, 14, 15, 20, 40, 50}
BoxOrigins == {0, 7}

\* A blob has at most as many pixels as its bounding box, and a 4-connected
\* one at least width + height - 1.
BlobInputs ==
    {b \in [area : BlobAreas,
            minX : BoxOrigins, maxX : {o + s - 1 : o \in BoxOrigins, s \in BoxSides},
            minY : BoxOrigins, maxY : {o + s - 1 : o \in BoxOrigins, s \in BoxSides},
            centerX : {<<0, 1>>}, centerY : {<<0, 1>>}] :
        /\ (b.maxX - b.minX + 1) \in BoxSides
        /\ (b.maxY - b.minY + 1) \in BoxSides
        /\ b.minX = b.minY
        /\ b.area <= (b.maxX - b.minX + 1) * (b.maxY - b.minY + 1)
        /\ b.area >= (b.maxX - b.minX + 1) + (b.maxY - b.minY + 1) - 1}

InitBlob ==
    /\ pc = "start"
    /\ \E b \in BlobInputs :
          blob = [b EXCEPT !.centerX = <<b.minX + b.maxX, 2>>,
                           !.centerY = <<b.minY + b.maxY, 2>>]
    /\ width = 0 /\ height = 0 /\ windowSize = CONFIG.windowSize
    /\ gray = NoBuffer /\ binary = NoBuffer /\ opened = NoBuffer
    /\ labels = NoBuffer /\ count = 0
    /\ valid = FALSE
    /\ blobs = <<>> /\ outermost = <<>>
    /\ IdleEnhance /\ IdleSkew /\ IdleCall /\ IdleApp

IsValidLoop ==
    /\ pc = "start"
    /\ valid' = isValidLoop(blob)
    /\ pc' = "validated"
    /\ UNCHANGED <<width, height, windowSize, gray, binary, opened, labels, count,
                   blob, blobs, outermost,
                   enhanceVars, skewVars,
                 callVars, appVars>>

NextBlob == IsValidLoop

SpecBlob == InitBlob /\ [][NextBlob]_vars

\* -- filterOutermost applied to a list of valid blobs of the 800 px wide
\*    working image
MaxBlobs == 3

SkylineBlobs ==
    {SolidRect(x0, y0, w, 21) : x0 \in {0, 47, 48, 95}, y0 \in {90, 190}, w \in {5, 6}}

RECURSIVE SeqsUpTo(_, _)
SeqsUpTo(S, n) ==
    IF n = 0 THEN {<<>>}
    ELSE LET shorter == SeqsUpTo(S, n - 1)
         IN shorter \cup {Append(q, e) : q \in {r \in shorter : Len(r) = n - 1}, e \in S}

InitSkyline ==
    /\ pc = "start"
    /\ blobs \in SeqsUpTo(SkylineBlobs, MaxBlobs)
    /\ width = CONFIG.resizeWidth /\ height = 0 /\ windowSize = CONFIG.windowSize
    /\ gray = NoBuffer /\ binary = NoBuffer /\ opened = NoBuffer
    /\ labels = NoBuffer /\ count = 0
    /\ blob = NoBlob /\ valid = FALSE
    /\ outermost = <<>>
    /\ IdleEnhance /\ IdleSkew /\ IdleCall /\ IdleApp

FilterOutermost ==
    /\ pc = "start"
    /\ outermost' = filterOutermost(blobs, width)
    /\ pc' = "filtered"
    /\ UNCHANGED <<width, height, windowSize, gray, binary, opened, labels, count,
                   blob, valid, blobs,
                   enhanceVars, skewVars,
                 callVars, appVars>>

NextSkyline == FilterOutermost

SpecSkyline == InitSkyline /\ [][NextSkyline]_vars

(***************************************************************************)
(* Properties of the detection stages                                      *)
(***************************************************************************)
RECURSIVE SumOver(_, _)
SumOver(f, S) ==
    IF S = {} THEN 0
    ELSE LET e == CHOOSE e \in S : TRUE IN f[e] + SumOver(f, S \ {e})

Foreground(b) == {i \in DOMAIN b : b[i] # 0}

Adjacent4(w, p, q) ==
    \/ (p \div w = q \div w) /\ ((p % w) = (q % w) + 1 \/ (q % w) = (p % w) + 1)
    \/ ((p % w) = (q % w)) /\ ((p \div w) = (q \div w) + 1 \/ (q \div w) = (p \div w) + 1)

\* The 4-connected component of the mask that holds the pixels S.
RECURSIVE Flood(_, _, _)
Flood(b, w, S) ==
    LET T == S \cup {q \in Foreground(b) : \E s \in S : Adjacent4(w, s, q)}
    IN IF T = S THEN S ELSE Flood(b, w, T)

\* C1: after connectedComponents a pixel has label 0 iff it is background, and
\* two foreground pixels carry the same label iff they lie in the same
\* 4-connected component of the mask.
C1_LabelsAreComponents ==
    pc = "labeled" =>
        /\ \A i \in DOMAIN binary : labels[i] = 0 <=> binary[i] = 0
        /\ \A p \in Foreground(binary) :
              LET comp == Flood(binary, width, {p})
              IN \A q \in Foreground(binary) : labels[p] = labels[q] <=> q \in comp

\* a mask with two components, one of which needed a union
C1_Witness ==
    /\ pc = "labeled"
    /\ \E p, q \in Foreground(binary) : labels[p] # labels[q]
    /\ count > Cardinality({labels[i] : i \in Foreground(binary)})

RootLabels == {labels[i] : i \in Foreground(binary)}

\* foreground pixels whose left and top neighbours are both background: the
\* pixels at which the first pass creates a provisional label
SeedPixels ==
    {i \in Foreground(binary) :
        /\ ((i % width) = 0 \/ binary[i - 1] = 0)
        /\ ((i \div width) = 0 \/ binary[i - width] = 0)}

\* C2 as stated: the returned count equals the number of distinct root labels
\* in the label map.
C2_CountIsRootCount ==
    pc = "labeled" => count = Cardinality(RootLabels)

\* C2 amended: the returned count is the number of provisional labels created
\* in the first pass; every label lies in 1..count, the number of distinct
\* root labels is at most count, and it is smaller exactly when some
\* component received more than one provisional label.
C2_CountIsProvisionalCount ==
    pc = "labeled" =>
        /\ count = Cardinality(SeedPixels)
        /\ RootLabels \subseteq 1..count
        /\ Cardinality(RootLabels) <= count
        /\ (Cardinality(RootLabels) < count <=>
               \E p, q \in SeedPixels : p # q /\ q \in Flood(binary, width, {p}))

C2_Witness ==
    /\ pc = "labeled"
    /\ Cardinality(RootLabels) = 2
    /\ count = 3

WindowPixels(w, h, win, x, y) ==
    {i \in 0..(w * h - 1) :
        /\ (i % w) >= x - (win \div 2) /\ (i % w) <= x + (win \div 2)
        /\ (i \div w) >= y - (win \div 2) /\ (i \div w) <= y + (win \div 2)}

\* C3: on an all-zero grayscale buffer adaptiveThreshold returns an
\* all-background mask.
C3_BlankStaysBackground ==
    (pc = "thresholded" /\ \A i \in DOMAIN gray : gray[i] = 0) =>
        \A i \in DOMAIN binary : binary[i] = 0

C3_Witness ==
    /\ pc = "thresholded"
    /\ width >= 3 /\ height >= 3 /\ windowSize = 3
    /\ \A i \in DOMAIN gray : gray[i] = 0

\* C4: a pixel is foreground iff gray > S / N + c, with S the direct sum over
\* the window clipped to the image and N the number of pixels of the clipped
\* window; the integral image lookups give S for every window.
C4_ThresholdIsClippedMean ==
    pc = "thresholded" =>
        LET integral == Integral(gray, width, height)
            o == windowSize \div 2
        IN \A x \in 0..(width - 1), y \in 0..(height - 1) :
            LET win == WindowPixels(width, height, windowSize, x, y)
                S == SumOver(gray, win)
                N == Cardinality(win)
            IN /\ getSum(integral, width, height, x - o, y - o, x + o, y + o) = S
               /\ (binary[y * width + x] = 1 <=>
                      gray[y * width + x] * N > S + CONFIG.c * N)
               /\ binary[y * width + x] \in {0, 1}

\* a 3x3 image under a 3x3 window: the centre window is whole, the others
\* are clipped, and the mask holds both values
C4_Witness ==
    /\ pc = "thresholded"
    /\ width = 3 /\ height = 3 /\ windowSize = 3
    /\ binary[4] = 1 /\ binary[0] = 0 /\ binary[8] = 1

Neighbours4(w, h, i) ==
    {q \in 0..(w * h - 1) : Adjacent4(w, i, q)}

OnBorder(w, h, i) ==
    (i % w) = 0 \/ (i % w) = w - 1 \/ (i \div w) = 0 \/ (i \div w) = h - 1

\* C5: every border pixel of the opened mask is background, and an interior
\* pixel p is foreground iff p or one of its 4 neighbours is an interior
\* pixel q with q and all 4 neighbours of q foreground in the input.
C5_OpenIsErodeThenDilate ==
    pc = "opened" =>
        \A p \in DOMAIN binary :
            IF OnBorder(width, height, p) THEN opened[p] = 0
            ELSE opened[p] = 1 <=>
                    \E q \in {p} \cup Neighbours4(width, height, p) :
                        /\ ~OnBorder(width, height, q)
                        /\ binary[q] = 1
                        /\ \A n \in Neighbours4(width, height, q) : binary[n] = 1

C5_Witness ==
    /\ pc = "opened"
    /\ \E p \in DOMAIN binary : opened[p] = 1
    /\ \E p \in DOMAIN binary :
          ~OnBorder(width, height, p) /\ binary[p] = 1 /\ opened[p] = 0

Range(q) == {q[k] : k \in DOMAIN q}

Column(b) == FracFloorDiv(b.centerX, 50)

\* C7: filterOutermost returns exactly one blob for each 50 px column that
\* holds the centroid of an input blob, that blob has the greatest centerY of
\* the input blobs of its column, and nothing else is returned; two blobs of
\* one column at centerY 100 and 200 give only the blob at 200.
C7_OnePerColumnMaxY ==
    pc = "filtered" =>
        /\ \A col \in {Column(b) : b \in Range(blobs)} :
              /\ Cardinality({k \in DOMAIN outermost : Column(outermost[k]) = col}) = 1
              /\ \E k \in DOMAIN outermost :
                    /\ Column(outermost[k]) = col
                    /\ \A b \in Range(blobs) :
                          Column(b) = col =>
                              ~FracGreater(b.centerY, outermost[k].centerY)
        /\ Range(outermost) \subseteq Range(blobs)
        /\ Len(outermost) = Cardinality({Column(b) : b \in Range(blobs)})
        /\ (/\ Len(blobs) = 2
            /\ Column(blobs[1]) = Column(blobs[2])
            /\ {blobs[1].centerY, blobs[2].centerY} = {<<200, 2>>, <<400, 2>>})
           => /\ Len(outermost) = 1
              /\ outermost[1].centerY = <<400, 2>>

\* two blobs of one column, the one at centerY 100 listed last, and a third
\* blob in another column
C7_Witness ==
    /\ pc = "filtered"
    /\ Len(blobs) = 3
    /\ Column(blobs[1]) = Column(blobs[2])
    /\ blobs[1].centerY = <<400, 2>> /\ blobs[2].centerY = <<200, 2>>
    /\ Column(blobs[3]) # Column(blobs[1])
    /\ Len(outermost) = 2

(***************************************************************************)
(* Image enhancement: applyCLAHE, adjustBrightnessContrast                 *)
(* An ImageData is [width, height, data], data the flat RGBA array.        *)
(***************************************************************************)
Levels == 0..255

\* Math.round(num / den) for den > 0: the nearest integer, halves upwards.
Round(num, den) == (2 * num + den) \div (2 * den)

\* A Uint8ClampedArray element keeps an integer clamped to 0..255.
Clamp8(v) == Max(0, Min(255, v))

\* Math.round(0.299 r + 0.587 g + 0.114 b)
Luminance(data, i) ==
    Round(299 * data[i * 4] + 587 * data[i * 4 + 1] + 114 * data[i * 4 + 2], 1000)


\* A table of the values Op(lo), ..., Op(hi), as a sequence: Op(v) is element
\* v - lo + 1; a table indexed by level holds level v at v + 1.
Tabulate(Op(_), lo, hi) ==
    [k \in 1..(hi - lo + 1) |-> Op(lo + k - 1)] \o <<>>

RECURSIVE SumTable(_, _, _)
SumTable(t, lo, hi) ==
    IF lo > hi THEN 0
    ELSE IF lo = hi THEN t[lo]
    ELSE LET mid == (lo + hi) \div 2
         IN SumTable(t, lo, mid) + SumTable(t, mid + 1, hi)

\* cdf[0] = hist[0]; cdf[i] = cdf[i - 1] + hist[i]: the running sums of
\* t[lo..hi] on top of base.
RECURSIVE RunningSums(_, _, _, _)
RunningSums(t, lo, hi, base) ==
    IF lo = hi THEN <<base + t[lo]>>
    ELSE LET mid == (lo + hi) \div 2
             left == RunningSums(t, lo, mid, base)
         IN left \o RunningSums(t, mid + 1, hi, left[Len(left)])

\* cdf.find(v => v > 0) || 0 : the first positive element of t[lo..hi], or 0
RECURSIVE FindPositive(_, _, _)
FindPositive(t, lo, hi) ==
    IF lo = hi THEN (IF t[lo] > 0 THEN t[lo] ELSE 0)
    ELSE LET mid == (lo + hi) \div 2
             first == FindPositive(t, lo, mid)
         IN IF first > 0 THEN first ELSE FindPositive(t, mid + 1, hi)

\* gray[i] is element i + 1 of the table GrayOf(img).
GrayOf(img) ==
    Tabulate(LAMBDA i : Luminance(img.data, i), 0, img.width * img.height - 1)

\* hist[v] is the number of the given pixels whose gray value is v.
Histogram(g, pixels) ==
    LET present == {g[q + 1] : q \in pixels}
    IN Tabulate(LAMBDA v : IF v \in present
                           THEN Cardinality({q \in pixels : g[q + 1] = v})
                           ELSE 0, 0, 255)

TileHistogram(g, w, x0, y0, x1, y1) ==
    Histogram(g, {y * w + x : x \in x0..(x1 - 1), y \in y0..(y1 - 1)})

\* The clip loop: [hist, clipped]
ClipHistogram(hist, clipVal) ==
    [hist |-> Tabulate(LAMBDA i : IF hist[i + 1] > clipVal THEN clipVal
                                  ELSE hist[i + 1], 0, 255),
     clipped |-> SumTable(Tabulate(LAMBDA i : IF hist[i + 1] > clipVal
                                              THEN hist[i + 1] - clipVal ELSE 0,
                                   0, 255), 1, 256)]

\* redistribution that drops the residual
Redistribute_batchOnly(hist, clipped) ==
    LET redistBatch == clipped \div 256
    IN Tabulate(LAMBDA i : hist[i + 1] + redistBatch, 0, 255)

\* The redistribution loop: every bin gets redistBatch, and the bins met while
\* residual > 0, which are the first residual bins (residual < 256), one more.
Redistribute(hist, clipped) ==
    LET redistBatch == clipped \div 256
        residual == clipped - redistBatch * 256
    IN Tabulate(LAMBDA i : hist[i + 1] + redistBatch + (IF i < residual THEN 1 ELSE 0),
                0, 255)

\* the lookup table with a clip value of at least 1
TileLut_clipAtLeastOne(g, w, h, clip, tile, tx, ty) ==
    LET x0 == tx * tile
        y0 == ty * tile
        x1 == Min(x0 + tile, w)
        y1 == Min(y0 + tile, h)
        tilePixels == (x1 - x0) * (y1 - y0)
        clipVal == Max(1, (clip[1] * tilePixels) \div (clip[2] * 256))
        cl == ClipHistogram(TileHistogram(g, w, x0, y0, x1, y1), clipVal)
        hist == Redistribute(cl.hist, cl.clipped)
        cdf == RunningSums(hist, 1, 256, 0)
        cdfMin == FindPositive(cdf, 1, 256)
        cdfRange == tilePixels - cdfMin
    IN Tabulate(LAMBDA i : IF cdfRange > 0
                           THEN Round((cdf[i + 1] - cdfMin) * 255, cdfRange)
                           ELSE i, 0, 255)

TileLut(g, w, h, clip, tile, tx, ty) ==
    LET x0 == tx * tile
        y0 == ty * tile
        x1 == Min(x0 + tile, w)
        y1 == Min(y0 + tile, h)
        tilePixels == (x1 - x0) * (y1 - y0)
        clipVal == (clip[1] * tilePixels) \div (clip[2] * 256)
        cl == ClipHistogram(TileHistogram(g, w, x0, y0, x1, y1), clipVal)
        hist == Redistribute(cl.hist, cl.clipped)
        cdf == RunningSums(hist, 1, 256, 0)
        cdfMin == FindPositive(cdf, 1, 256)
        cdfRange == tilePixels - cdfMin
    IN Tabulate(LAMBDA i : IF cdfRange > 0
                           THEN Round((cdf[i + 1] - cdfMin) * 255, cdfRange)
                           ELSE i, 0, 255)

\* One output sample of the loop that applies the lookup tables.  oldLum is
\* kept as the exact 1000 * (0.299 r + 0.587 g + 0.114 b).
ClahePixel(img, g, lookupTables, tile, tilesX, tilesY, k) ==
    LET i == k \div 4
        x == i % img.width
        y == i \div img.width
        tx == Min(x \div tile, tilesX - 1)
        ty == Min(y \div tile, tilesY - 1)
        newVal == lookupTables[ty + 1][tx + 1][g[i + 1] + 1]
        idx == i * 4
        oldLum1000 == 299 * img.data[idx] + 587 * img.data[idx + 1]
                      + 114 * img.data[idx + 2]
    IN IF k % 4 = 3 THEN img.data[k]
       ELSE IF oldLum1000 > 0
            THEN Clamp8(Min(255, Round(img.data[k] * newVal * 1000, oldLum1000)))
            ELSE Clamp8(newVal)

applyCLAHE(img, clip, tile) ==
    LET g == GrayOf(img)
        tilesX == CeilDiv(img.width, tile)
        tilesY == CeilDiv(img.height, tile)
        lookupTables ==
            Tabulate(LAMBDA ty :
                Tabulate(LAMBDA tx : TileLut(g, img.width, img.height, clip, tile, tx, ty),
                         0, tilesX - 1),
                0, tilesY - 1)
    IN [img EXCEPT !.data =
           [k \in DOMAIN img.data |->
               ClahePixel(img, g, lookupTables, tile, tilesX, tilesY, k)]]

\* The body of the percentile loop of adjustBrightnessContrast for level i;
\* done is the break.
PercentileStep(hist, lowPercentile, highPercentile, st, i) ==
    LET cumSum == st.cumSum + hist[i + 1]
        minVal == IF cumSum >= lowPercentile /\ st.minVal = 0 THEN i ELSE st.minVal
    IN IF cumSum >= highPercentile
       THEN [cumSum |-> cumSum, minVal |-> minVal, maxVal |-> i, done |-> TRUE]
       ELSE [cumSum |-> cumSum, minVal |-> minVal, maxVal |-> st.maxVal, done |-> FALSE]

\* The loop over the levels lo..hi, in order, stopping at the break.
RECURSIVE PercentileLoop(_, _, _, _, _, _)
PercentileLoop(hist, lowPercentile, highPercentile, st, lo, hi) ==
    IF st.done THEN st
    ELSE IF lo = hi THEN PercentileStep(hist, lowPercentile, highPercentile, st, lo)
    ELSE LET mid == (lo + hi) \div 2
             first == PercentileLoop(hist, lowPercentile, highPercentile, st, lo, mid)
         IN PercentileLoop(hist, lowPercentile, highPercentile, first, mid + 1, hi)

LuminanceHistogram(img) ==
    Histogram(GrayOf(img), 0..(img.width * img.height - 1))

\* Math.floor(totalPixels * 0.01) and Math.floor(totalPixels * 0.99)
AutoLevels(img) ==
    LET totalPixels == img.width * img.height
        st == PercentileLoop(LuminanceHistogram(img),
                             totalPixels \div 100, (totalPixels * 99) \div 100,
                             [cumSum |-> 0, minVal |-> 0, maxVal |-> 255, done |-> FALSE],
                             0, 255)
    IN [minVal |-> st.minVal, maxVal |-> st.maxVal]

adjustBrightnessContrast(img) ==
    LET lv == AutoLevels(img)
        range == lv.maxVal - lv.minVal
    IN IF range = 0 THEN img
       ELSE [img EXCEPT !.data =
                [k \in DOMAIN img.data |->
                    IF k % 4 = 3 THEN img.data[k]
                    ELSE Max(0, Min(255, Round((img.data[k] - lv.minVal) * 255, range)))]]

(***************************************************************************)
(* Specifications of the enhancement stages                                *)
(***************************************************************************)
\* An opaque gray pixel, as R, G, B, A.
GrayColour(v) == <<v, v, v, 255>>

\* An image whose first k1 pixels have colour A, the next k2 colour B and the
\* others colour C.
RunImage(w, h, k1, k2, A, B, C) ==
    [width |-> w, height |-> h,
     data |-> [k \in 0..(4 * w * h - 1) |->
                  (IF k \div 4 < k1 THEN A
                   ELSE IF k \div 4 < k1 + k2 THEN B ELSE C)[(k % 4) + 1]]]

ClaheDims == {<<1, 1>>, <<3, 2>>, <<8, 8>>, <<9, 8>>, <<9, 9>>}

\* -- applyCLAHE as enhanceImage calls it, applied to a uniform gray image
InitCLAHE ==
    /\ pc = "start"
    /\ \E d \in ClaheDims, v \in Levels :
          imageData = RunImage(d[1], d[2], 0, 0, GrayColour(v), GrayColour(v),
                               GrayColour(v))
    /\ clipLimit = <<5, 2>> /\ tileSize = 8
    /\ enhanced = NoImage
    /\ IdleDetect /\ IdleSkew /\ IdleCall /\ IdleApp

ApplyCLAHE ==
    /\ pc = "start"
    /\ enhanced' = applyCLAHE(imageData, clipLimit, tileSize)
    /\ pc' = "clahe"
    /\ UNCHANGED <<imageData, clipLimit, tileSize, detectVars, skewVars,
                 callVars, appVars>>

NextCLAHE == ApplyCLAHE

SpecCLAHE == InitCLAHE /\ [][NextCLAHE]_vars

\* -- adjustBrightnessContrast applied to images of 4 and of 100 pixels
LevelsDims == {<<2, 2>>, <<10, 10>>}
LevelsPalette == {GrayColour(0), GrayColour(1), GrayColour(2), GrayColour(200),
                  <<10, 60, 200, 255>>}

InitLevels ==
    /\ pc = "start"
    /\ \E d \in LevelsDims, A, B, C \in LevelsPalette :
       \E k1 \in {0, 1, (d[1] * d[2]) \div 4, (d[1] * d[2]) \div 2},
          k2 \in {0, 1, (d[1] * d[2]) \div 4} :
          imageData = RunImage(d[1], d[2], k1, k2, A, B, C)
    /\ clipLimit = <<5, 2>> /\ tileSize = 8
    /\ enhanced = NoImage
    /\ IdleDetect /\ IdleSkew /\ IdleCall /\ IdleApp

AdjustBrightnessContrast ==
    /\ pc = "start"
    /\ enhanced' = adjustBrightnessContrast(imageData)
    /\ pc' = "levelled"
    /\ UNCHANGED <<imageData, clipLimit, tileSize, detectVars, skewVars,
                 callVars, appVars>>

NextLevels == AdjustBrightnessContrast

SpecLevels == InitLevels /\ [][NextLevels]_vars

(***************************************************************************)
(* Properties of the enhancement stages                                    *)
(***************************************************************************)

\* C8: applyCLAHE with clipLimit 2.5 and tile size 8 leaves the luminance of
\* every pixel of a uniform gray image unchanged.
C8_UniformUnchanged ==
    (pc = "clahe"
     /\ \A i, j \in 0..(imageData.width * imageData.height - 1) :
           Luminance(imageData.data, i) = Luminance(imageData.data, j))
    => \A i \in 0..(imageData.width * imageData.height - 1) :
           Luminance(enhanced.data, i) = Luminance(imageData.data, i)

\* An 8 x 8 image of uniform luminance 100 comes back with luminance 255.
C8_Witness ==
    /\ pc = "clahe"
    /\ imageData.width = 8 /\ imageData.height = 8
    /\ \A i \in 0..63 : Luminance(imageData.data, i) = 100
    /\ \A i \in 0..63 : Luminance(enhanced.data, i) = 255

\* The least level whose cumulative pixel count reaches the given count.
LeastLevelReaching(hist, target) ==
    LET cumulative == RunningSums(hist, 1, 256, 0)
    IN CHOOSE v \in Levels :
          /\ cumulative[v + 1] >= target \/ v = 255
          /\ \A u \in 0..(v - 1) : cumulative[u + 1] < target

\* C9: minVal is the least level whose cumulative count reaches
\* floor(0.01 N), maxVal the least level whose cumulative count reaches
\* floor(0.99 N); every R, G, B value v becomes
\* clamp(round((v - minVal) / (maxVal - minVal) * 255), 0, 255), and the image
\* is returned unchanged when minVal = maxVal.
C9_AutoLevelsStretch ==
    pc = "levelled" =>
        LET N == imageData.width * imageData.height
            hist == LuminanceHistogram(imageData)
            minVal == LeastLevelReaching(hist, N \div 100)
            maxVal == LeastLevelReaching(hist, (N * 99) \div 100)
        IN /\ AutoLevels(imageData) = [minVal |-> minVal, maxVal |-> maxVal]
           /\ IF minVal = maxVal THEN enhanced = imageData
              ELSE \A k \in DOMAIN imageData.data :
                      enhanced.data[k] =
                          IF k % 4 = 3 THEN imageData.data[k]
                          ELSE Clamp8(Round((imageData.data[k] - minVal) * 255,
                                            maxVal - minVal))

\* A 10 x 10 image with 50 pixels of level 0, 25 of level 1 and 25 of level 2:
\* the 1st percentile is level 0, the loop leaves minVal at 1, and level 1 is
\* mapped to 0.
C9_Witness ==
    /\ pc = "levelled"
    /\ imageData = RunImage(10, 10, 50, 25, GrayColour(0), GrayColour(1),
                            GrayColour(2))
    /\ AutoLevels(imageData) = [minVal |-> 1, maxVal |-> 2]
    /\ enhanced.data[200] = 0

(***************************************************************************)
(* Deskew: the angle sweep of calculateSkewAngle                           *)
(* Angles are in tenths of a degree: the coarse sweep runs from -200 to    *)
(* 200 in steps of 10, the fine sweep in steps of 1.  The variance that    *)
(* calculateProjectionVariance returns for a candidate is drawn when the   *)
(* candidate is evaluated; it is never below 0, so always above the        *)
(* initial maxVariance of -1.                                              *)
(***************************************************************************)
Variances == 0..MaxVariance

CoarseFirst == 0 - 200
CoarseLast == 200
CoarseStepSize == 10
FineReach == 10

\* if (variance > maxVariance) { maxVariance = variance; bestAngle = angle; }
Update_noMax(st, variance, a) ==
    IF variance > st.maxVariance
    THEN [maxVariance |-> st.maxVariance, bestAngle |-> a]
    ELSE st

Update_orEqual(st, variance, a) ==
    IF variance >= st.maxVariance
    THEN [maxVariance |-> variance, bestAngle |-> a]
    ELSE st

Update(st, variance, a) ==
    IF variance > st.maxVariance
    THEN [maxVariance |-> variance, bestAngle |-> a]
    ELSE st

Record(h, variance, a) ==
    [angles |-> h.angles \cup {a},
     max    |-> IF variance > h.max THEN variance ELSE h.max,
     first  |-> IF variance > h.max THEN a ELSE h.first]

Evaluate(variance) ==
    LET st == Update([maxVariance |-> maxVariance, bestAngle |-> bestAngle],
                     variance, angle)
    IN /\ maxVariance' = st.maxVariance
       /\ bestAngle' = st.bestAngle
       /\ history' = Record(history, variance, angle)

InitSkew ==
    /\ pc = "coarse"
    /\ angle = CoarseFirst
    /\ bestAngle = 0
    /\ maxVariance = -1
    /\ coarseBest = 0
    /\ history = NoHistory
    /\ IdleDetect /\ IdleEnhance /\ IdleCall /\ IdleApp

\* one iteration of: for (angle = -20; angle <= 20; angle += 1)
CoarseStep ==
    /\ pc = "coarse"
    /\ angle <= CoarseLast
    /\ \E variance \in Variances : Evaluate(variance)
    /\ angle' = angle + CoarseStepSize
    /\ UNCHANGED <<pc, coarseBest, detectVars, enhanceVars,
                 callVars, appVars>>

\* the coarse loop ends; coarseBest = bestAngle; angle = coarseBest - 1
CoarseDone ==
    /\ pc = "coarse"
    /\ angle > CoarseLast
    /\ coarseBest' = bestAngle
    /\ angle' = bestAngle - FineReach
    /\ pc' = "fine"
    /\ UNCHANGED <<bestAngle, maxVariance, history, detectVars, enhanceVars,
                 callVars, appVars>>

\* one iteration of: for (angle = coarseBest - 1; angle <= coarseBest + 1;
\* angle += 0.1).  The sum of twenty additions of 0.1 is not exact in binary
\* floating point and can exceed coarseBest + 1, so the last candidate is
\* either evaluated or skipped (FineDone).
FineStep ==
    /\ pc = "fine"
    /\ angle <= coarseBest + FineReach
    /\ \E variance \in Variances : Evaluate(variance)
    /\ angle' = angle + 1
    /\ UNCHANGED <<pc, coarseBest, detectVars, enhanceVars,
                 callVars, appVars>>

\* the fine loop ends; resolve(bestAngle)
FineDone ==
    /\ pc = "fine"
    /\ angle >= coarseBest + FineReach
    /\ pc' = "done"
    /\ UNCHANGED <<skewVars, detectVars, enhanceVars,
                 callVars, appVars>>

NextSkew == CoarseStep \/ CoarseDone \/ FineStep \/ FineDone

SpecSkew == InitSkew /\ [][NextSkew]_vars

(***************************************************************************)
(* Properties of the angle sweep                                           *)
(***************************************************************************)
CoarseCandidates == {CoarseFirst + CoarseStepSize * k : k \in 0..40}

EntryPoints == {"detectLoops", "calculateSkewAngle", "enhanceImage"}

Pending == [state |-> "pending", value |-> Null, settled |-> 0]

\* resolve(value) and reject(error): the first call settles the promise, any
\* later call leaves it alone; settled counts the calls.
Settle(p, state, value) ==
    IF p.state = "pending"
    THEN [state |-> state, value |-> value, settled |-> p.settled + 1]
    ELSE [p EXCEPT !.settled = p.settled + 1]

resolve(p, value) == Settle(p, "resolved", value)

reject(p, message) == Settle(p, "rejected", [error |-> message])

\* The angles calculateSkewAngle can resolve with, in tenths of a degree.
SkewAngles == (CoarseFirst - FineReach)..(CoarseLast + FineReach)

\* processImage: [returned, value]; returned is FALSE when it throws.
processImage(context, throws, n) ==
    IF context = "none" THEN [returned |-> TRUE, value |-> [loops |-> 0]]
    ELSE IF throws THEN [returned |-> FALSE, value |-> Null]
    ELSE [returned |-> TRUE, value |-> [loops |-> n]]

InitCall ==
    /\ entry \in EntryPoints
    /\ pc = CASE entry = "detectLoops" -> "timer"
              [] entry = "calculateSkewAngle" -> "executor"
              [] entry = "enhanceImage" -> "reading"
    /\ ctx = "unasked"
    /\ promise = Pending
    /\ uncaught = FALSE
    /\ IdleDetect /\ IdleEnhance /\ IdleSkew /\ IdleApp

\* detectLoops: the setTimeout callback.  An exception of processImage leaves
\* the callback before resolve is called and nothing catches it.
DetectTimer ==
    /\ entry = "detectLoops" /\ pc = "timer"
    /\ \E context \in {"none", "2d"}, throws \in BOOLEAN, n \in 0..MaxLoops :
          LET r == processImage(context, throws, n)
          IN /\ ctx' = context
             /\ promise' = IF r.returned THEN resolve(promise, r.value)
                           ELSE promise
             /\ uncaught' = ~r.returned
    /\ pc' = "returned"
    /\ UNCHANGED <<entry, detectVars, enhanceVars, skewVars, appVars>>

\* calculateSkewAngle: the promise executor, all of it inside try / catch.
SkewExecutor ==
    /\ entry = "calculateSkewAngle" /\ pc = "executor"
    /\ \E context \in {"none", "2d"}, throws \in BOOLEAN, a \in SkewAngles :
          /\ ctx' = context
          /\ promise' =
                IF context = "none"
                THEN reject(promise, "Could not get canvas context")
                ELSE IF throws THEN reject(promise, "thrown")
                ELSE resolve(promise, [angle |-> a])
    /\ pc' = "returned"
    /\ UNCHANGED <<entry, uncaught, detectVars, enhanceVars, skewVars, appVars>>

\* enhanceImage: reader.onload sets img.src
ReaderLoad ==
    /\ entry = "enhanceImage" /\ pc = "reading"
    /\ pc' = "decoding"
    /\ UNCHANGED <<callVars, detectVars, enhanceVars, skewVars, appVars>>

\* enhanceImage: reader.onerror
ReaderError ==
    /\ entry = "enhanceImage" /\ pc = "reading"
    /\ promise' = reject(promise, "Failed to read file")
    /\ pc' = "returned"
    /\ UNCHANGED <<entry, ctx, uncaught, detectVars, enhanceVars, skewVars,
                   appVars>>

\* enhanceImage: img.onerror
ImageError ==
    /\ entry = "enhanceImage" /\ pc = "decoding"
    /\ promise' = reject(promise, "Failed to load image")
    /\ pc' = "returned"
    /\ UNCHANGED <<entry, ctx, uncaught, detectVars, enhanceVars, skewVars,
                   appVars>>

\* enhanceImage: img.onload, all of it inside try / catch.
ImageLoad ==
    /\ entry = "enhanceImage" /\ pc = "decoding"
    /\ \E context \in {"none", "2d"}, throws \in BOOLEAN :
          /\ ctx' = context
          /\ promise' =
                IF context = "none"
                THEN reject(promise, "Could not get canvas context")
                ELSE IF throws THEN reject(promise, "thrown")
                ELSE resolve(promise, [url |-> "enhanced"])
    /\ pc' = "returned"
    /\ UNCHANGED <<entry, uncaught, detectVars, enhanceVars, skewVars, appVars>>

NextCall ==
    \/ DetectTimer \/ SkewExecutor
    \/ ReaderLoad \/ ReaderError \/ ImageError \/ ImageLoad

SpecCall == InitCall /\ [][NextCall]_vars

\* The event loop runs every timer callback, and every read and every decode
\* ends in its load or its error event.
SpecCallFair == SpecCall /\ WF_vars(NextCall)

(***************************************************************************)
(* Properties of the pipeline calls                                        *)
(***************************************************************************)

\* C11: when the 2D context cannot be obtained the call never resolves with a
\* value, and it has rejected when its last callback has returned.
C11_NoContextRejects ==
    ctx = "none" =>
        /\ promise.state # "resolved"
        /\ pc = "returned" => promise.state = "rejected"

\* detectLoops without a context resolves with the empty list of loops.
C11_Witness ==
    /\ entry = "detectLoops" /\ ctx = "none" /\ pc = "returned"
    /\ promise = [state |-> "resolved", value |-> [loops |-> 0], settled |-> 1]

\* C12: every call eventually settles, and settles once: from some point on
\* its promise is resolved or rejected by exactly one call of resolve or
\* reject.
C12_EventuallySettlesOnce ==
    <>[](promise.state \in {"resolved", "rejected"} /\ promise.settled = 1)

\* detectLoops whose processImage threw: the callback is over and the promise
\* is pending.
C12_Witness ==
    /\ entry = "detectLoops" /\ pc = "returned" /\ uncaught
    /\ promise = Pending

(***************************************************************************)
(* App: the workspace of files, their annotations, the enhancement toggle  *)
(* and auto-align.  A handler that awaits is two actions: the part up to   *)
(* the await, which leaves a record in pending holding the values the      *)
(* handler captured, and the continuation.  A File is [name, skew], skew   *)
(* being the angle, in tenths of a degree, calculateSkewAngle finds for    *)
(* its pixels.                                                             *)
(***************************************************************************)
FileNames == <<"a.png", "b.png", "c.png", "d.png">>

SkewSamples == {0 - 53, 0, 127}

RotationSamples == {0, 900}

FileEntry(file) == [file |-> file, annotations |-> Null]

\* The lists loadFilesFromDirectory can return: n files, sorted by name.
FileLists ==
    UNION {{[k \in 1..n |-> FileEntry([name |-> FileNames[k], skew |-> sk[k]])] :
               sk \in [1..n -> SkewSamples]} : n \in 2..MaxFiles}

Annotations ==
    [loops |-> loops, secondaries |-> secondaries, rulers |-> rulers,
     roi |-> roi, scale |-> scale, rotation |-> rotation]

\* saveCurrentAnnotations leaving the list as it is
saveCurrentAnnotations_stale == files

\* saveCurrentAnnotations: the list handed to setFiles
saveCurrentAnnotations ==
    IF currentFileIndex >= 0 /\ currentFileIndex < Len(files)
    THEN [files EXCEPT ![currentFileIndex + 1].annotations = Annotations]
    ELSE files

\* loadFile(index, fileList), index within the list
loadFile(index, fileList) ==
    LET fileEntry == fileList[index + 1]
        saved == fileEntry.annotations
    IN /\ image' = fileEntry.file
       /\ currentFileIndex' = index
       /\ IF saved # Null
          THEN /\ loops' = saved.loops
               /\ secondaries' = saved.secondaries
               /\ rulers' = saved.rulers
               /\ roi' = saved.roi
               /\ scale' = saved.scale
               /\ rotation' = saved.rotation
          ELSE /\ loops' = <<>>
               /\ secondaries' = <<>>
               /\ rulers' = <<>>
               /\ roi' = Null
               /\ scale' = 1
               /\ rotation' = 0
       /\ isEnhanced' = FALSE
       /\ enhancedImageUrl' = Null

\* The App after handleDirectorySelect(newFiles, ...) with a list of files:
\* the first file is loaded.
LoadedWorkspace ==
    /\ files \in FileLists
    /\ currentFileIndex = 0
    /\ image = files[1].file
    /\ patientId = <<>> /\ subdirectories = <<>> /\ selectedSubdirectory = ""
    /\ IdleAnnotations
    /\ activeTool = "select"
    /\ isEnhanced = FALSE /\ enhancedImageUrl = Null /\ isEnhancing = FALSE
    /\ isAligning = FALSE /\ rulerStart = Null
    /\ pending = {}
    /\ log = [NoLog EXCEPT !.left = [k \in 1..Len(files) |-> Null]]

\* handleFileSelect(index), from handleThumbnailClick (never the current
\* index) or from handlePreviousImage / handleNextImage.  loadFile reads the
\* list of the render the handler belongs to, not the list just saved.
FileSelect(index) ==
    /\ index \in 0..(Len(files) - 1)
    /\ index # currentFileIndex
    /\ files' = saveCurrentAnnotations
    /\ loadFile(index, files)
    /\ log' = [log EXCEPT !.succeeded = FALSE, !.runsAfterSuccess = 0,
                          !.aligned = Null, !.alignsInRow = 0,
                          !.clicks = <<>>,
                          !.rulersAtStart =
                              IF files[index + 1].annotations # Null
                              THEN files[index + 1].annotations.rulers
                              ELSE <<>>,
                          !.left[currentFileIndex + 1] = Annotations,
                          !.restored = (log.left[index + 1] # Null)]
    /\ UNCHANGED <<patientId, subdirectories, selectedSubdirectory, activeTool,
                   isEnhancing, isAligning, rulerStart, pending>>

\* handleToggleEnhancement up to its await: what the handler does.
ToggleBranch_noCache(enhancedNow, cached) ==
    IF ~enhancedNow THEN "run" ELSE "hide"

ToggleBranch(enhancedNow, cached) ==
    IF ~enhancedNow
    THEN (IF cached = Null THEN "run" ELSE "show")
    ELSE "hide"

\* handleToggleEnhancement; the button is disabled while isEnhancing.
ToggleEnhancement ==
    /\ image # Null
    /\ ~isEnhancing
    /\ LET branch == ToggleBranch(isEnhanced, enhancedImageUrl)
       IN /\ isEnhancing' = (branch = "run")
          /\ pending' = IF branch = "run"
                        THEN pending \cup {[handler |-> "enhance", image |-> image]}
                        ELSE pending
          /\ isEnhanced' = CASE branch = "run" -> isEnhanced
                             [] branch = "show" -> TRUE
                             [] branch = "hide" -> FALSE
          /\ log' = IF branch = "run" /\ log.succeeded
                    THEN [log EXCEPT !.runsAfterSuccess = @ + 1]
                    ELSE [log EXCEPT !.restored = FALSE]
    /\ UNCHANGED <<fileVars, annotationVars, image, activeTool,
                   enhancedImageUrl, isAligning, rulerStart>>

\* enhanceImage resolved: setEnhancedImageUrl, setIsEnhancing(false),
\* setIsEnhanced(true)
EnhanceResolved(p) ==
    /\ p \in pending /\ p.handler = "enhance"
    /\ pending' = pending \ {p}
    /\ enhancedImageUrl' = [enhancedUrlOf |-> p.image.name]
    /\ isEnhancing' = FALSE
    /\ isEnhanced' = TRUE
    /\ log' = [log EXCEPT !.succeeded = @ \/ (p.image = image),
                          !.restored = FALSE]
    /\ UNCHANGED <<fileVars, annotationVars, image, activeTool, isAligning,
                   rulerStart>>

\* enhanceImage rejected: the catch block
EnhanceRejected(p) ==
    /\ p \in pending /\ p.handler = "enhance"
    /\ pending' = pending \ {p}
    /\ isEnhancing' = FALSE
    /\ log' = [log EXCEPT !.restored = FALSE]
    /\ UNCHANGED <<fileVars, annotationVars, image, activeTool, isEnhanced,
                   enhancedImageUrl, isAligning, rulerStart>>

\* The URL AnnotationCanvas is given.
Displayed ==
    IF isEnhanced /\ enhancedImageUrl # Null THEN enhancedImageUrl
    ELSE [objectUrlOf |-> image.name]

\* setRotation(angle) of handleAutoAlign
AlignedRotation_incremental(current, skewAngle) == current + skewAngle

AlignedRotation(current, skewAngle) == skewAngle

\* handleAutoAlign up to its awaits; the button is disabled while isAligning.
AutoAlign ==
    /\ image # Null
    /\ ~isAligning
    /\ log.alignsInRow < MaxAligns
    /\ isAligning' = TRUE
    /\ pending' = pending \cup {[handler |-> "align", image |-> image]}
    /\ log' = [log EXCEPT !.restored = FALSE]
    /\ UNCHANGED <<fileVars, annotationVars, image, activeTool, isEnhanced,
                   enhancedImageUrl, isEnhancing, rulerStart>>

\* calculateSkewAngle resolved: setRotation(angle); finally
\* setIsAligning(false)
AlignResolved(p) ==
    /\ p \in pending /\ p.handler = "align"
    /\ pending' = pending \ {p}
    /\ rotation' = AlignedRotation(rotation, p.image.skew)
    /\ isAligning' = FALSE
    /\ log' = [log EXCEPT !.aligned = p.image, !.alignsInRow = @ + 1,
                          !.restored = FALSE]
    /\ UNCHANGED <<fileVars, loops, secondaries, roi, rulers, scale, image,
                   activeTool, isEnhanced, enhancedImageUrl, isEnhancing,
                   rulerStart>>

\* calculateSkewAngle rejected: the catch block; finally setIsAligning(false)
AlignRejected(p) ==
    /\ p \in pending /\ p.handler = "align"
    /\ pending' = pending \ {p}
    /\ isAligning' = FALSE
    /\ log' = [log EXCEPT !.restored = FALSE]
    /\ UNCHANGED <<fileVars, annotationVars, image, activeTool, isEnhanced,
                   enhancedImageUrl, isEnhancing, rulerStart>>

\* the Image element of handleAutoAlign fires error instead of load (the
\* file does not decode, or its object URL was revoked by a file switch):
\* only onload is set, the promise awaited never settles and nothing of the
\* handler runs again
AlignImageError(p) ==
    /\ p \in pending /\ p.handler = "align"
    /\ pending' = pending \ {p}
    /\ log' = [log EXCEPT !.restored = FALSE]
    /\ UNCHANGED <<fileVars, annotationVars, image, activeTool, isEnhanced,
                   enhancedImageUrl, isEnhancing, isAligning, rulerStart>>

\* Sidebar: onRotationChange = setRotation
RotationChange(r) ==
    /\ image # Null
    /\ r # rotation
    /\ rotation' = r
    /\ log' = [log EXCEPT !.aligned = Null, !.alignsInRow = 0,
                          !.restored = FALSE]
    /\ UNCHANGED <<fileVars, loops, secondaries, roi, rulers, scale, image, activeTool, isEnhanced,
                   enhancedImageUrl, isEnhancing, isAligning, rulerStart,
                   pending>>

InitView ==
    /\ pc = "app"
    /\ LoadedWorkspace
    /\ IdleDetect /\ IdleEnhance /\ IdleSkew /\ IdleCall

NextView ==
    /\ \/ \E index \in 0..(MaxFiles - 1) : FileSelect(index)
       \/ ToggleEnhancement
       \/ \E p \in pending : EnhanceResolved(p)
       \/ \E p \in pending : EnhanceRejected(p)
       \/ AutoAlign
       \/ \E p \in pending : AlignResolved(p)
       \/ \E p \in pending : AlignRejected(p)
       \/ \E p \in pending : AlignImageError(p)
       \/ \E r \in RotationSamples : RotationChange(r)
    /\ UNCHANGED <<pc, detectVars, enhanceVars, skewVars, callVars>>

SpecView == InitView /\ [][NextView]_vars

\* what the browser delivers to a handler that is waiting: every awaited
\* enhanceImage settles; every Image element fires load or error and every
\* calculateSkewAngle settles
EnhanceDelivery ==
    /\ \E p \in pending : EnhanceResolved(p) \/ EnhanceRejected(p)
    /\ UNCHANGED <<pc, detectVars, enhanceVars, skewVars, callVars>>

AlignDelivery ==
    /\ \E p \in pending :
          AlignResolved(p) \/ AlignRejected(p) \/ AlignImageError(p)
    /\ UNCHANGED <<pc, detectVars, enhanceVars, skewVars, callVars>>

SpecViewFair ==
    SpecView /\ WF_vars(EnhanceDelivery) /\ WF_vars(AlignDelivery)

(***************************************************************************)
(* Properties of the enhancement toggle and of auto-align                  *)
(***************************************************************************)

\* C13: once enhanceImage has succeeded for the loaded image it is not run
\* again while that image stays loaded: the enhanced URL stays cached and the
\* canvas is given either the original URL or the cached one.
C13_EnhanceRunsOnce ==
    log.succeeded =>
        /\ log.runsAfterSuccess = 0
        /\ enhancedImageUrl # Null
        /\ Displayed \in {[objectUrlOf |-> image.name], enhancedImageUrl}

\* after the success the view was toggled back to the original; the enhanced
\* URL of the loaded image is still cached
C13_Witness ==
    /\ log.succeeded /\ ~isEnhanced /\ ~isEnhancing
    /\ enhancedImageUrl = [enhancedUrlOf |-> image.name]
    /\ Displayed = [objectUrlOf |-> image.name]

\* C14: after a successful auto-align the rotation is the skew angle of the
\* image that was measured, whatever the rotation was before, also after two
\* auto-aligns in a row.
C14_AutoAlignAbsolute ==
    log.aligned # Null => rotation = log.aligned.skew

\* two auto-aligns in a row on an image with a non-zero skew angle
C14_Witness ==
    /\ log.alignsInRow = 2
    /\ log.aligned = image
    /\ image.skew # 0
    /\ rotation = image.skew

\* C22: an enhanced image that is cached or displayed was produced by
\* enhanceImage from the file now loaded.
C22_EnhancedIsOfLoadedFile ==
    enhancedImageUrl # Null =>
        enhancedImageUrl = [enhancedUrlOf |-> image.name]

\* the canvas shows the enhanced image of a file other than the one loaded
C22_Witness ==
    /\ isEnhanced /\ ~isEnhancing
    /\ enhancedImageUrl # Null
    /\ Displayed = enhancedImageUrl
    /\ \E k \in 1..Len(files) :
          /\ k # currentFileIndex + 1
          /\ Displayed = [enhancedUrlOf |-> files[k].file.name]

\* C23: a rotation that auto-align has written was computed from the image
\* now loaded.
C23_AngleIsOfLoadedFile ==
    log.aligned # Null => log.aligned = image

\* the rotation of the loaded file is the skew angle of another file, not its
\* own
C23_Witness ==
    /\ log.aligned # Null /\ log.aligned # image
    /\ ~isAligning
    /\ rotation = log.aligned.skew
    /\ rotation # image.skew
    /\ rotation # 0

\* C24: isAligning and isEnhancing, once set, are eventually cleared.
C24_BusyFlagsCleared ==
    /\ (isAligning ~> ~isAligning)
    /\ (isEnhancing ~> ~isEnhancing)

\* the aligning flag is set and no handler is left that could clear it
C24_Witness ==
    /\ isAligning
    /\ \A p \in pending : p.handler # "align"

(***************************************************************************)
(* sharpenImage, with its two buffers kept apart: data, the array of the   *)
(* ImageData it is given, and enhanced, the copy it writes.  amount is a   *)
(* fraction <<numerator, denominator>>.                                    *)
(***************************************************************************)
kernel == <<0, 0 - 1, 0, 0 - 1, 5, 0 - 1, 0, 0 - 1, 0>>

\* The interior samples in the order of the loops over y, x and c, as the
\* indices (y * width + x) * 4 + c.
InteriorSamples(w, h) ==
    [k \in 1..(Max(0, w - 2) * Max(0, h - 2) * 3) |->
        LET q == (k - 1) \div 3
            x == 1 + (q % (w - 2))
            y == 1 + (q \div (w - 2))
        IN (y * w + x) * 4 + ((k - 1) % 3)]

\* sum += data[idx] * kernel[kIdx] over ky and kx
KernelSum(data, w, idx) ==
    LET term(ky, kx) == data[idx + (ky * w + kx) * 4]
                        * kernel[(ky + 1) * 3 + (kx + 1) + 1]
        row(ky) == term(ky, 0 - 1) + term(ky, 0) + term(ky, 1)
    IN row(0 - 1) + row(0) + row(1)

\* One pass of the innermost loop body: st is [data, enhanced].
SharpenSample_inPlace(st, w, amount, idx) ==
    LET sharpened == Max(0, Min(255, KernelSum(st.data, w, idx)))
        value == Clamp8(Round(st.data[idx] * (amount[2] - amount[1])
                              + sharpened * amount[1], amount[2]))
    IN [data |-> [st.data EXCEPT ![idx] = value],
        enhanced |-> [st.enhanced EXCEPT ![idx] = value]]

SharpenSample(st, w, amount, idx) ==
    LET sharpened == Max(0, Min(255, KernelSum(st.data, w, idx)))
    IN [st EXCEPT !.enhanced[idx] =
           Clamp8(Round(st.data[idx] * (amount[2] - amount[1])
                        + sharpened * amount[1], amount[2]))]

RECURSIVE SharpenLoop(_, _, _, _, _)
SharpenLoop(st, w, amount, samples, k) ==
    IF k > Len(samples) THEN st
    ELSE SharpenLoop(SharpenSample(st, w, amount, samples[k]), w, amount,
                     samples, k + 1)

\* [data, enhanced] when sharpenImage returns: the array it was given and
\* the array of the ImageData it returns.
sharpenImage(img, amount) ==
    SharpenLoop([data |-> img.data, enhanced |-> img.data], img.width, amount,
                InteriorSamples(img.width, img.height), 1)

(***************************************************************************)
(* Every stage applied to a buffer its caller keeps                        *)
(***************************************************************************)
BufferDims == {<<3, 3>>, <<4, 3>>}
BufferColours == {GrayColour(40), <<200, 90, 10, 255>>}

InitBuffers ==
    /\ pc = "start"
    /\ \E d \in BufferDims :
          /\ width = d[1] /\ height = d[2]
          /\ \/ /\ gray \in [0..(d[1] * d[2] - 1) -> {0, 10}]
                /\ binary = NoBuffer /\ imageData = NoImage
             \/ /\ binary \in [0..(d[1] * d[2] - 1) -> {0, 1}]
                /\ gray = NoBuffer /\ imageData = NoImage
             \/ /\ \E px \in [0..(d[1] * d[2] - 1) -> BufferColours] :
                      imageData = [width |-> d[1], height |-> d[2],
                                   data |-> [k \in 0..(4 * d[1] * d[2] - 1) |->
                                                px[k \div 4][(k % 4) + 1]]]
                /\ gray = NoBuffer /\ binary = NoBuffer
    /\ windowSize = CONFIG.windowSize
    /\ opened = NoBuffer /\ labels = NoBuffer /\ count = 0
    /\ blob = NoBlob /\ valid = FALSE /\ blobs = <<>> /\ outermost = <<>>
    /\ clipLimit = <<5, 2>> /\ tileSize = 8
    /\ enhanced = NoImage
    /\ IdleSkew /\ IdleCall /\ IdleApp

\* sharpenImage(imageData, 0.6) as enhanceImage calls it
SharpenImage ==
    /\ pc = "start"
    /\ LET r == sharpenImage(imageData, <<3, 5>>)
       IN /\ imageData' = [imageData EXCEPT !.data = r.data]
          /\ enhanced' = [imageData EXCEPT !.data = r.enhanced]
    /\ pc' = "sharpened"
    /\ UNCHANGED <<clipLimit, tileSize, detectVars, skewVars, callVars, appVars>>

NextBuffers ==
    \/ gray # NoBuffer /\ AdaptiveThreshold
    \/ binary # NoBuffer /\ MorphologyOpen
    \/ binary # NoBuffer /\ ConnectedComponents
    \/ imageData # NoImage /\ ApplyCLAHE
    \/ imageData # NoImage /\ AdjustBrightnessContrast
    \/ imageData # NoImage /\ SharpenImage

SpecBuffers == InitBuffers /\ [][NextBuffers]_vars

\* The sharpened value of an interior sample, from the image as it was given.
SharpenedFrom(img, k) ==
    LET d == img.data
        w == img.width
        sum == 5 * d[k] - d[k - 4] - d[k + 4] - d[k - 4 * w] - d[k + 4 * w]
        sharpened == IF sum < 0 THEN 0 ELSE IF sum > 255 THEN 255 ELSE sum
    IN (2 * (2 * d[k] + 3 * sharpened) + 5) \div 10

\* C15: no stage writes into the buffer it is given, and sharpenImage
\* computes every output sample from the image as it was given: interior
\* R, G, B samples are sharpened from the given values, all others copied.
C15_InputsUntouched ==
    [][/\ pc' = "thresholded" => gray' = gray
       /\ pc' \in {"opened", "labeled"} => binary' = binary
       /\ pc' \in {"clahe", "levelled", "sharpened"} => imageData' = imageData
       /\ pc' = "sharpened" =>
             \A k \in DOMAIN imageData.data :
                enhanced'.data[k] =
                    IF /\ k % 4 # 3
                       /\ Interior(imageData.width, imageData.height, k \div 4)
                    THEN SharpenedFrom(imageData, k)
                    ELSE imageData.data[k]]_vars

\* a 4 x 3 image sharpened: both interior pixels changed
C15_Witness ==
    /\ pc = "sharpened"
    /\ imageData.width = 4
    /\ enhanced.data[20] # imageData.data[20]
    /\ enhanced.data[24] # imageData.data[24]

(***************************************************************************)
(* processImage, steps 6 and 7: the blobs of all labels are validated and  *)
(* the valid ones handed to filterOutermost.                               *)
(***************************************************************************)
\* The BlobStats of a blob of the given area that is symmetric within its
\* w x h bounding box, whose top left pixel is (x0, y0).
BoxedBlob(area, x0, y0, w, h) ==
    [SolidRect(x0, y0, w, h) EXCEPT !.area = area]

\* candidates: the blobs isValidLoop accepts, in label order
Candidates_unvalidated(bs) == bs

Candidates(bs) == SelectSeq(bs, isValidLoop)

\* Three blobs of area 400, 150 and 1500 with height / width 3, 2 and 1 / 2
\* and solidity at least 0.6, in three different columns.
FirstBlobs ==
    {BoxedBlob(400, x0, y0, w, 3 * w) :
        x0 \in {100, 130}, y0 \in {50, 300}, w \in {12, 14}}

SecondBlobs ==
    {BoxedBlob(150, x0, y0, w, 2 * w) :
        x0 \in {300, 352}, y0 \in {50, 300}, w \in {9, 11}}

ThirdBlobs ==
    {BoxedBlob(1500, x0, y0, 2 * h, h) :
        x0 \in {500, 600}, y0 \in {50, 300}, h \in {28, 35}}

Orders == {<<1, 2, 3>>, <<2, 3, 1>>, <<3, 2, 1>>}

InitStages ==
    /\ pc = "start"
    /\ \E b1 \in FirstBlobs, b2 \in SecondBlobs, b3 \in ThirdBlobs,
          order \in Orders :
          blobs = [k \in 1..3 |-> <<b1, b2, b3>>[order[k]]]
    /\ width = CONFIG.resizeWidth /\ height = 0 /\ windowSize = CONFIG.windowSize
    /\ gray = NoBuffer /\ binary = NoBuffer /\ opened = NoBuffer
    /\ labels = NoBuffer /\ count = 0
    /\ blob = NoBlob /\ valid = FALSE
    /\ outermost = <<>>
    /\ IdleEnhance /\ IdleSkew /\ IdleCall /\ IdleApp

DetectStages ==
    /\ pc = "start"
    /\ outermost' = filterOutermost(Candidates(blobs), width)
    /\ pc' = "detected"
    /\ UNCHANGED <<width, height, windowSize, gray, binary, opened, labels, count,
                   blob, valid, blobs, enhanceVars, skewVars, callVars, appVars>>

NextStages == DetectStages

SpecStages == InitStages /\ [][NextStages]_vars

\* C16: of three blobs of area 400, 150 and 1500 with aspect ratios 3, 2 and
\* 0.5, isValidLoop followed by filterOutermost retains exactly the second.
C16_RetainsSecondOnly ==
    pc = "detected" =>
        /\ Len(outermost) = 1
        /\ outermost[1].area = 150

\* C16, as the code has it: the first and the second blob are retained, the
\* third is not.
C16_RetainsFirstAndSecond ==
    pc = "detected" =>
        /\ Len(outermost) = 2
        /\ {outermost[k].area : k \in 1..2} = {400, 150}
        /\ Range(outermost) \subseteq Range(blobs)

\* the three blobs are valid candidates for the claim and two were retained
C16_Witness ==
    /\ pc = "detected"
    /\ Len(blobs) = 3
    /\ \A k \in 1..3 :
          LET b == blobs[k]
              w == b.maxX - b.minX + 1
              h == b.maxY - b.minY + 1
          IN /\ 5 * b.area >= 3 * w * h
             /\ \/ b.area = 400 /\ h = 3 * w
                \/ b.area = 150 /\ h = 2 * w
                \/ b.area = 1500 /\ 2 * h = w
    /\ \A j, k \in 1..3 : j # k => Column(blobs[j]) # Column(blobs[k])
    /\ Len(outermost) = 2

(***************************************************************************)
(* FileBrowser: the patient directory and the examination dropdown.        *)
(* Directory names and patient IDs are sequences of characters.  A         *)
(* directory is [name, exams], exams giving the image files of each        *)
(* examination (subdirectory).                                             *)
(***************************************************************************)
Digits == {"0", "1", "2", "3", "4", "5", "6", "7", "8", "9"}

\* dirName.match(/\d{8}/): the first 8 consecutive digits, or the whole name
extractPatientId(dirName) ==
    LET starts == {i \in 1..(Len(dirName) - 7) :
                      \A k \in 0..7 : dirName[i + k] \in Digits}
    IN IF starts = {} THEN dirName
       ELSE LET first == CHOOSE i \in starts : \A j \in starts : i <= j
            IN SubSeq(dirName, first, first + 7)

DirNames ==
    {<<"1", "2", "3", "4", "5", "6", "7", "8">>,
     <<"1", "2", "3", "4", "5", "6", "7", "8", "_", "L", "e", "e">>,
     <<"P", "-", "0", "0", "1", "2", "3", "4", "5", "6">>,
     <<"9", "_", "8", "7", "6", "5", "4", "3", "2", "1", "0">>,
     <<"L", "e", "e">>}

ExamFiles(names) ==
    [k \in 1..Len(names) |-> FileEntry([name |-> names[k], skew |-> 0])]

ExamSets ==
    {[exam1 |-> ExamFiles(<<"a.png">>), exam2 |-> ExamFiles(<<"b.png", "c.png">>)],
     [exam1 |-> ExamFiles(<<"a.png", "d.png">>), exam2 |-> ExamFiles(<<"b.png">>),
      exam3 |-> ExamFiles(<<>>)]}

Directories == {[name |-> n, exams |-> e] : n \in DirNames, e \in ExamSets}

\* subdirs.sort()
RECURSIVE SortedNames(_)
SortedNames(S) ==
    IF S = {} THEN <<>>
    ELSE LET least == CHOOSE a \in S : \A b \in S :
                         a = b \/ <<a, b>> \in {<<"exam1", "exam2">>,
                                                <<"exam1", "exam3">>,
                                                <<"exam2", "exam3">>}
         IN <<least>> \o SortedNames(S \ {least})

\* handleDirectorySelect(newFiles, patientIdentifier, subdirs)
handleDirectorySelect(newFiles, patientIdentifier, subdirs) ==
    /\ patientId' = patientIdentifier
    /\ subdirectories' = subdirs
    /\ selectedSubdirectory' = IF Len(subdirs) > 0 THEN subdirs[1] ELSE ""
    /\ files' = newFiles
    /\ IF Len(newFiles) > 0
       THEN loadFile(0, newFiles)
       ELSE UNCHANGED <<image, currentFileIndex, annotationVars, isEnhanced,
                        enhancedImageUrl>>

\* handleSelectPatientDirectory: the user picks directory dir; the files of
\* its first examination are loaded.
SelectPatientDirectory(dir) ==
    LET subdirs == SortedNames(DOMAIN dir.exams)
    IN /\ Len(subdirs) > 0
       /\ handleDirectorySelect(dir.exams[subdirs[1]],
                                extractPatientId(dir.name), subdirs)
       /\ log' = [NoLog EXCEPT
                     !.left = [k \in 1..Len(dir.exams[subdirs[1]]) |-> Null],
                     !.chosen = [dir |-> dir, exam |-> subdirs[1],
                                 dropdown |-> FALSE]]
       /\ UNCHANGED <<activeTool, isEnhancing, isAligning, rulerStart, pending>>

\* FileBrowser.handleSubdirectoryChange(subdirName): the user picks the
\* patient directory again and the files of the examination are loaded, then
\* onSubdirectoryChange(subdirName), which is setSelectedSubdirectory(
\* subdirName), and onDirectorySelect(fileEntries, patientDirHandle.name,
\* subdirectories) are called one after the other; the state after both is
\* the one handleDirectorySelect sets.
SubdirectoryChange(subdirName, dir) ==
    /\ subdirName \in Range(subdirectories)
    /\ subdirName # selectedSubdirectory
    /\ subdirName \in DOMAIN dir.exams
    /\ handleDirectorySelect(dir.exams[subdirName], dir.name, subdirectories)
    /\ log' = [NoLog EXCEPT
                  !.left = [k \in 1..Len(dir.exams[subdirName]) |-> Null],
                  !.chosen = [dir |-> dir, exam |-> subdirName,
                              dropdown |-> TRUE]]
    /\ UNCHANGED <<activeTool, isEnhancing, isAligning, rulerStart, pending>>

InitBrowse ==
    /\ pc = "app"
    /\ IdleApp
    /\ IdleDetect /\ IdleEnhance /\ IdleSkew /\ IdleCall

NextBrowse ==
    /\ \/ \E dir \in Directories : SelectPatientDirectory(dir)
       \/ \E dir \in Directories : \E subdirName \in DOMAIN dir.exams :
             SubdirectoryChange(subdirName, dir)
       \/ \E index \in 0..(MaxFiles - 1) : FileSelect(index)
       \/ \E r \in RotationSamples : RotationChange(r)
    /\ UNCHANGED <<pc, detectVars, enhanceVars, skewVars, callVars>>

SpecBrowse == InitBrowse /\ [][NextBrowse]_vars

(***************************************************************************)
(* Properties of the file browser                                          *)
(***************************************************************************)

\* C17: after examination S has been chosen in the dropdown and its files
\* have loaded, selectedSubdirectory is S and files holds the images of S.
C17_SelectedIsChosen ==
    (log.chosen # Null /\ log.chosen.dropdown) =>
        /\ selectedSubdirectory = log.chosen.exam
        /\ [k \in 1..Len(files) |-> files[k].file]
              = [k \in 1..Len(log.chosen.dir.exams[log.chosen.exam]) |->
                    log.chosen.dir.exams[log.chosen.exam][k].file]

\* exam2 was chosen and its two images loaded; exam1 is the one selected
C17_Witness ==
    /\ log.chosen # Null /\ log.chosen.dropdown
    /\ log.chosen.exam = "exam2"
    /\ selectedSubdirectory = "exam1"
    /\ Len(files) = 2 /\ files[1].file.name = "b.png"
    /\ image = files[1].file

\* C18: when the directory picked has a name that contains 8 digits in a
\* row, patientId is 8 digits in a row of that name, after the directory is
\* selected and after every change of examination.
C18_PatientIdIsEightDigits ==
    (/\ log.chosen # Null
     /\ \E i \in 1..(Len(log.chosen.dir.name) - 7) :
           \A k \in 0..7 : log.chosen.dir.name[i + k] \in Digits)
    => /\ Len(patientId) = 8
       /\ \A k \in 1..8 : patientId[k] \in Digits
       /\ \E i \in 1..(Len(log.chosen.dir.name) - 7) :
             patientId = SubSeq(log.chosen.dir.name, i, i + 7)

\* after a change of examination in directory 12345678_Lee the patient ID is
\* the whole directory name
C18_Witness ==
    /\ log.chosen # Null /\ log.chosen.dropdown
    /\ log.chosen.dir.name
          = <<"1", "2", "3", "4", "5", "6", "7", "8", "_", "L", "e", "e">>
    /\ patientId = log.chosen.dir.name

(***************************************************************************)
(* geometry: updateLoopClassifications.  A loop is a record with x, y and  *)
(* isOutermost among its fields.                                           *)
(***************************************************************************)

\* calculateAngle(p1, p2, p3) > 90: the angle at p2 is acos of the clamped
\* cosine dot / (mag1 * mag2), in degrees, and 0 when a side has length 0;
\* it exceeds 90 exactly when both sides have length and dot is negative.
AngleOver90(p1, p2, p3) ==
    LET v1 == [x |-> p1.x - p2.x, y |-> p1.y - p2.y]
        v2 == [x |-> p3.x - p2.x, y |-> p3.y - p2.y]
        dot == v1.x * v2.x + v1.y * v2.y
    IN /\ ~(v1.x = 0 /\ v1.y = 0)
       /\ ~(v2.x = 0 /\ v2.y = 0)
       /\ dot < 0

\* one step of the stable sort by a.x - b.x: l goes behind every loop whose
\* x is not larger
InsertByX(sorted, l) ==
    LET before == {k \in 1..Len(sorted) : sorted[k].x <= l.x}
        n == Cardinality(before)
    IN SubSeq(sorted, 1, n) \o <<l>> \o SubSeq(sorted, n + 1, Len(sorted))

\* [...loops].sort((a, b) => a.x - b.x)
RECURSIVE SortByX(_)
SortByX(ls) ==
    IF ls = <<>> THEN <<>>
    ELSE InsertByX(SortByX(SubSeq(ls, 1, Len(ls) - 1)), ls[Len(ls)])

\* the flag of the loop at index of the sorted list
Outermost(sortedLoops, index) ==
    IF index = 1 \/ index = Len(sortedLoops) THEN TRUE
    ELSE LET loop == sortedLoops[index]
             prev == sortedLoops[index - 1]
             next == sortedLoops[index + 1]
             isRetracted == loop.y > prev.y /\ loop.y > next.y
         IN IF ~isRetracted THEN TRUE ELSE AngleOver90(prev, loop, next)

\* updateLoopClassifications sorting lists of every length
updateLoopClassifications_sortAlways(ls) ==
    LET sortedLoops == SortByX(ls)
    IN [k \in 1..Len(sortedLoops) |->
           [sortedLoops[k] EXCEPT !.isOutermost = Outermost(sortedLoops, k)]]

updateLoopClassifications(ls) ==
    IF Len(ls) < 3
    THEN [k \in 1..Len(ls) |-> [ls[k] EXCEPT !.isOutermost = TRUE]]
    ELSE LET sortedLoops == SortByX(ls)
         IN [k \in 1..Len(sortedLoops) |->
                [sortedLoops[k] EXCEPT !.isOutermost = Outermost(sortedLoops, k)]]

\* handleLoopsChange(newLoops): the list handed to setLoops
handleLoopsChange(newLoops) == updateLoopClassifications(newLoops)

(***************************************************************************)
(* AnnotationCanvas: clicks on the image with each tool, and the ruler's   *)
(* pending start point.                                                    *)
(***************************************************************************)
MaxMarks == 3

Tools == {"select", "roi", "measure", "secondary"}

\* pointer positions in image coordinates
Points == {[x |-> 10, y |-> 20], [x |-> 35, y |-> 5]}

Marks == Len(loops) + Len(secondaries) + Len(rulers)

RulerLine(start, pointer) ==
    [x1 |-> start.x, y1 |-> start.y, x2 |-> pointer.x, y2 |-> pointer.y]

\* handleStageClick with the measure tool: what it hands to setRulerStart and
\* to onRulersChange
MeasureClick_chained(start, rs, pointer) ==
    IF start = Null
    THEN [rulerStart |-> pointer, rulers |-> rs]
    ELSE [rulerStart |-> pointer,
          rulers |-> Append(rs, RulerLine(start, pointer))]

MeasureClick(start, rs, pointer) ==
    IF start = Null
    THEN [rulerStart |-> pointer, rulers |-> rs]
    ELSE [rulerStart |-> Null,
          rulers |-> Append(rs, RulerLine(start, pointer))]

\* handleStageClick for a click on the Stage or the Image, not at the end of
\* a drag
StageClick(pointer) ==
    /\ image # Null
    /\ Marks < MaxMarks
    /\ roi' = IF activeTool = "roi" /\ roi = Null THEN pointer ELSE roi
    /\ loops' = IF activeTool = "select"
                THEN handleLoopsChange(
                         Append(loops, [x |-> pointer.x, y |-> pointer.y,
                                        morphology |-> "Normal", diameter |-> 10,
                                        isOutermost |-> FALSE]))
                ELSE loops
    /\ secondaries' = IF activeTool = "secondary"
                      THEN Append(secondaries,
                                  [x |-> pointer.x, y |-> pointer.y,
                                   type |-> "Hemorrhage"])
                      ELSE secondaries
    /\ IF activeTool = "measure"
       THEN /\ rulerStart' = MeasureClick(rulerStart, rulers, pointer).rulerStart
            /\ rulers' = MeasureClick(rulerStart, rulers, pointer).rulers
            /\ log' = [log EXCEPT !.clicks = Append(log.clicks, pointer),
                                  !.restored = FALSE]
       ELSE /\ UNCHANGED <<rulerStart, rulers>>
            /\ log' = [log EXCEPT !.restored = FALSE]
    /\ UNCHANGED <<fileVars, scale, rotation, image, activeTool, isEnhanced,
                   enhancedImageUrl, isEnhancing, isAligning, pending>>

\* setActiveTool(tool), from the sidebar, handleRulerToggle or a keyboard
\* shortcut, and the effect on [activeTool] that follows the render
SetActiveTool(tool) ==
    /\ tool # activeTool
    /\ activeTool' = tool
    /\ rulerStart' = IF tool # "measure" THEN Null ELSE rulerStart
    /\ log' = IF tool = "measure"
              THEN [log EXCEPT !.clicks = <<>>, !.rulersAtStart = rulers,
                               !.restored = FALSE]
              ELSE [log EXCEPT !.restored = FALSE]
    /\ UNCHANGED <<fileVars, annotationVars, image, isEnhanced,
                   enhancedImageUrl, isEnhancing, isAligning, pending>>

InitRuler ==
    /\ pc = "app"
    /\ LoadedWorkspace
    /\ \A k \in 1..Len(files) : files[k].file.skew = 0
    /\ IdleDetect /\ IdleEnhance /\ IdleSkew /\ IdleCall

NextRuler ==
    /\ \/ \E pointer \in Points : StageClick(pointer)
       \/ \E tool \in Tools : SetActiveTool(tool)
    /\ UNCHANGED <<pc, detectVars, enhanceVars, skewVars, callVars>>

SpecRuler == InitRuler /\ [][NextRuler]_vars

MaxEdits == 2

\* calibration scales, pixels per micrometre
ScaleSamples == {1, 3}

\* onScaleChange={setScale}
ScaleChange(s) ==
    /\ image # Null
    /\ s # scale
    /\ scale' = s
    /\ log' = [log EXCEPT !.restored = FALSE]
    /\ UNCHANGED <<fileVars, loops, secondaries, roi, rulers, rotation, image,
                   activeTool, isEnhanced, enhancedImageUrl, isEnhancing,
                   isAligning, rulerStart, pending>>

\* how far a file's annotations are from those of a new file
Edits(a) ==
    IF a = Null THEN 0
    ELSE Len(a.loops) + Len(a.secondaries) + Len(a.rulers)
         + (IF a.roi # Null THEN 1 ELSE 0)
         + (IF a.scale # 1 THEN 1 ELSE 0)
         + (IF a.rotation # 0 THEN 1 ELSE 0)

RECURSIVE SavedEdits(_)
SavedEdits(k) ==
    IF k = 0 THEN 0
    ELSE SavedEdits(k - 1)
         + (IF k = currentFileIndex + 1 THEN 0 ELSE Edits(files[k].annotations))

WorkspaceEdits == Edits(Annotations) + SavedEdits(Len(files))

InitFiles ==
    /\ pc = "app"
    /\ LoadedWorkspace
    /\ \A k \in 1..Len(files) : files[k].file.skew = 0
    /\ IdleDetect /\ IdleEnhance /\ IdleSkew /\ IdleCall

NextFiles ==
    /\ \/ \E index \in 0..(MaxFiles - 1) : FileSelect(index)
       \/ \E tool \in Tools : SetActiveTool(tool)
       \/ /\ WorkspaceEdits < MaxEdits
          /\ \/ \E pointer \in Points : StageClick(pointer)
             \/ \E r \in RotationSamples : RotationChange(r)
             \/ \E s \in ScaleSamples : ScaleChange(s)
    /\ UNCHANGED <<pc, detectVars, enhanceVars, skewVars, callVars>>

SpecFiles == InitFiles /\ [][NextFiles]_vars

\* C20: when a file is selected that was left before, its loops,
\* secondaries, rulers, roi, scale and rotation are those it had when it was
\* left.
C20_SwitchRestores ==
    log.restored => Annotations = log.left[currentFileIndex + 1]

\* back on a file left with a ruler, after a scale was set on another file
C20_Witness ==
    /\ log.restored
    /\ Len(rulers) = 1
    /\ \E k \in 1..Len(files) :
          /\ k # currentFileIndex + 1
          /\ files[k].annotations # Null
          /\ files[k].annotations.scale # 1

(***************************************************************************)
(* The loop list of the current image: placing, dragging, deleting.        *)
(***************************************************************************)

\* positions that give flat, obtuse and acute triples
LoopPoints ==
    {[x |-> 0, y |-> 0], [x |-> 10, y |-> 30], [x |-> 20, y |-> 0],
     [x |-> 10, y |-> 5], [x |-> 30, y |-> 40], [x |-> 5, y |-> 10]}

\* onDragEnd of a loop's circle: the loop moves and the list is classified
LoopDragEnd(index, pointer) ==
    /\ activeTool = "select"
    /\ index \in 1..Len(loops)
    /\ loops' = handleLoopsChange(
                    [loops EXCEPT ![index] =
                        [@ EXCEPT !.x = pointer.x, !.y = pointer.y]])
    /\ log' = [log EXCEPT !.restored = FALSE]
    /\ UNCHANGED <<fileVars, secondaries, roi, rulers, scale, rotation, image,
                   activeTool, isEnhanced, enhancedImageUrl, isEnhancing,
                   isAligning, rulerStart, pending>>

\* handleDeleteLoop(id): setLoops(loops.filter(loop => loop.id !== id)), for
\* the loop at index
DeleteLoop(index) ==
    /\ index \in 1..Len(loops)
    /\ loops' = SubSeq(loops, 1, index - 1) \o SubSeq(loops, index + 1, Len(loops))
    /\ log' = [log EXCEPT !.restored = FALSE]
    /\ UNCHANGED <<fileVars, secondaries, roi, rulers, scale, rotation, image,
                   activeTool, isEnhanced, enhancedImageUrl, isEnhancing,
                   isAligning, rulerStart, pending>>

InitLoops ==
    /\ pc = "app"
    /\ LoadedWorkspace
    /\ \A k \in 1..Len(files) : files[k].file.skew = 0
    /\ IdleDetect /\ IdleEnhance /\ IdleSkew /\ IdleCall

NextLoops ==
    /\ \/ \E pointer \in LoopPoints : StageClick(pointer)
       \/ \E index \in 1..MaxMarks : \E pointer \in LoopPoints :
             LoopDragEnd(index, pointer)
       \/ \E index \in 1..MaxMarks : DeleteLoop(index)
    /\ UNCHANGED <<pc, detectVars, enhanceVars, skewVars, callVars>>

SpecLoops == InitLoops /\ [][NextLoops]_vars

\* C21: the isOutermost flags of the loop list are the ones
\* updateLoopClassifications computes for the list; with fewer than 3 loops
\* every loop is marked outermost.
C21_FlagsAreCurrent ==
    /\ loops = updateLoopClassifications(loops)
    /\ Len(loops) < 3 => \A k \in 1..Len(loops) : loops[k].isOutermost

\* two loops are left and one of them is not marked outermost
C21_Witness ==
    /\ Len(loops) = 2
    /\ \E k \in 1..2 : ~loops[k].isOutermost

(***************************************************************************)
(* processImage, steps 5 and 6: analyzeBlob for every label id.            *)
(***************************************************************************)

\* the body of analyzeBlob's loops for pixel i
AnalyzePixel(lab, label, w, st, i) ==
    LET x == i % w
        y == i \div w
    IN IF lab[i] = label
       THEN [area |-> st.area + 1,
             minX |-> IF x < st.minX THEN x ELSE st.minX,
             maxX |-> IF x > st.maxX THEN x ELSE st.maxX,
             minY |-> IF y < st.minY THEN y ELSE st.minY,
             maxY |-> IF y > st.maxY THEN y ELSE st.maxY,
             sumX |-> st.sumX + x,
             sumY |-> st.sumY + y]
       ELSE st

RECURSIVE AnalyzeScan(_, _, _, _, _, _)
AnalyzeScan(lab, label, w, h, st, i) ==
    IF i >= w * h THEN st
    ELSE AnalyzeScan(lab, label, w, h, AnalyzePixel(lab, label, w, st, i), i + 1)

analyzeBlob(lab, label, w, h) ==
    LET st == AnalyzeScan(lab, label, w, h,
                  [area |-> 0, minX |-> w, maxX |-> 0, minY |-> h, maxY |-> 0,
                   sumX |-> 0, sumY |-> 0], 0)
    IN [area |-> st.area,
        minX |-> st.minX, maxX |-> st.maxX,
        minY |-> st.minY, maxY |-> st.maxY,
        centerX |-> IF st.area > 0 THEN <<st.sumX, st.area>> ELSE <<0, 1>>,
        centerY |-> IF st.area > 0 THEN <<st.sumY, st.area>> ELSE <<0, 1>>]

\* the blob of each label id 1..count
LabelBlobs(lab, n, w, h) == [i \in 1..n |-> analyzeBlob(lab, i, w, h)]

\* processImage: the candidates of the label map
AnalyzeBlobs ==
    /\ pc = "labeled"
    /\ blobs' = Candidates(LabelBlobs(labels, count, width, height))
    /\ pc' = "analysed"
    /\ UNCHANGED <<width, height, windowSize, gray, binary, opened, labels,
                   count, blob, valid, outermost,
                   enhanceVars, skewVars, callVars, appVars>>

\* the masks handed to connectedComponents: up to 12 pixels
InitAnalyze ==
    /\ InitMask
    /\ width * height <= MaxMaskCells - 3

NextAnalyze == ConnectedComponents \/ AnalyzeBlobs

SpecAnalyze == InitAnalyze /\ [][NextAnalyze]_vars

\* C25: of the label ids 1..count, each 4-connected component of the mask
\* has exactly one with pixels, its area is the number of pixels of the
\* component, and every label id with area 0 fails the area test of
\* isValidLoop, so the candidates are at most one per component.
C25_OneBlobPerComponent ==
    pc = "analysed" =>
        LET stats == LabelBlobs(labels, count, width, height)
            components == {Flood(binary, width, {p}) : p \in Foreground(binary)}
            ids(comp) == {i \in 1..count :
                             /\ stats[i].area # 0
                             /\ \E p \in comp : labels[p] = i}
        IN /\ \A comp \in components :
                 /\ Cardinality(ids(comp)) = 1
                 /\ \A i \in ids(comp) :
                       /\ stats[i].area = Cardinality(comp)
                       /\ {p \in DOMAIN labels : labels[p] = i} = comp
           /\ \A i \in 1..count :
                 \/ \E comp \in components : i \in ids(comp)
                 \/ /\ stats[i].area = 0
                    /\ stats[i].area < CONFIG.minArea
                    /\ ~isValidLoop(stats[i])
           /\ Len(blobs) <= Cardinality(components)

\* two components, one of which used two provisional labels
C25_Witness ==
    /\ pc = "analysed"
    /\ count = 3
    /\ Cardinality({Flood(binary, width, {p}) : p \in Foreground(binary)}) = 2
    /\ \E i \in 1..count : analyzeBlob(labels, i, width, height).area = 0

(***************************************************************************)
(* applyCLAHE on images of several colours, with several clip limits and   *)
(* tile sizes: the histogram of each tile after clipping and               *)
(* redistribution.                                                         *)
(***************************************************************************)

\* what applyCLAHE computes for tile (tx, ty) up to its cdf
TileBins(g, w, h, clip, tile, tx, ty) ==
    LET x0 == tx * tile
        y0 == ty * tile
        x1 == Min(x0 + tile, w)
        y1 == Min(y0 + tile, h)
        tilePixels == (x1 - x0) * (y1 - y0)
        clipVal == (clip[1] * tilePixels) \div (clip[2] * 256)
        cl == ClipHistogram(TileHistogram(g, w, x0, y0, x1, y1), clipVal)
        hist == Redistribute(cl.hist, cl.clipped)
    IN [pixels |-> {y * w + x : x \in x0..(x1 - 1), y \in y0..(y1 - 1)},
        tilePixels |-> tilePixels,
        clipVal |-> clipVal,
        clipped |-> cl.clipped,
        hist |-> hist,
        cdf |-> RunningSums(hist, 1, 256, 0)]

ClipDims == {<<3, 2>>, <<8, 8>>, <<9, 8>>, <<16, 2>>}
ClipPalette == {GrayColour(0), GrayColour(40), <<200, 90, 10, 255>>}
ClipLimits == {<<0, 1>>, <<5, 2>>, <<16, 1>>, <<40, 1>>, <<300, 1>>}
TileSizes == {4, 8}

InitClip ==
    /\ pc = "start"
    /\ \E d \in ClipDims, A, B, C \in ClipPalette :
       \E k1 \in {1, 8}, k2 \in {0, 8} :
          imageData = RunImage(d[1], d[2], k1, k2, A, B, C)
    /\ clipLimit \in ClipLimits /\ tileSize \in TileSizes
    /\ enhanced = NoImage
    /\ IdleDetect /\ IdleSkew /\ IdleCall /\ IdleApp

NextClip == ApplyCLAHE

SpecClip == InitClip /\ [][NextClip]_vars

TilesOf(img, tile) ==
    (0..(CeilDiv(img.width, tile) - 1)) \X (0..(CeilDiv(img.height, tile) - 1))

\* C26: in every tile the 256 bins after clipping and redistribution sum to
\* the number of pixels of the tile, cdf[255] is that number, and the lookup
\* table maps the gray value of every pixel of the tile into 0..255.
C26_MassConserved ==
    pc = "clahe" =>
        LET g == GrayOf(imageData)
        IN \A t \in TilesOf(imageData, tileSize) :
              LET b == TileBins(g, imageData.width, imageData.height,
                                clipLimit, tileSize, t[1], t[2])
                  lut == TileLut(g, imageData.width, imageData.height,
                                 clipLimit, tileSize, t[1], t[2])
              IN /\ SumTable(b.hist, 1, 256) = b.tilePixels
                 /\ b.cdf[256] = b.tilePixels
                 /\ \A q \in b.pixels : lut[g[q + 1] + 1] \in 0..255

\* a tile of 64 pixels clipped at 4 per bin: part of a bin is cut off and
\* handed out again, as a residual
C26_Witness ==
    /\ pc = "clahe"
    /\ imageData.width = 8 /\ imageData.height = 8 /\ tileSize = 8
    /\ LET b == TileBins(GrayOf(imageData), 8, 8, clipLimit, 8, 0, 0)
       IN /\ b.clipVal = 10
          /\ b.clipped > 0 /\ b.clipped < 64
          /\ \E v \in 1..256 : b.hist[v] > b.clipVal

\* C27: with clipLimit 2.5 and tile size 8 the clip value of every tile is 0
\* and the lookup table of a tile is the one any tile of as many pixels
\* gets: two tiles of the image with the same number of pixels have the same
\* table, which is also the table of a black image of the same size.
C27_LutIgnoresContent ==
    (pc = "clahe" /\ clipLimit = <<5, 2>> /\ tileSize = 8) =>
        LET g == GrayOf(imageData)
            w == imageData.width
            h == imageData.height
            black == [k \in 1..(w * h) |-> 0]
            Lut(t) == TileLut(g, w, h, clipLimit, tileSize, t[1], t[2])
            Bins(t) == TileBins(g, w, h, clipLimit, tileSize, t[1], t[2])
        IN /\ \A t \in TilesOf(imageData, tileSize) :
                 /\ Bins(t).clipVal = 0
                 /\ Lut(t) = TileLut(black, w, h, clipLimit, tileSize, t[1], t[2])
           /\ \A t, u \in TilesOf(imageData, tileSize) :
                 Bins(t).tilePixels = Bins(u).tilePixels => Lut(t) = Lut(u)

\* two tiles of 16 pixels each with different contents
C27_Witness ==
    /\ pc = "clahe" /\ clipLimit = <<5, 2>> /\ tileSize = 8
    /\ imageData.width = 16 /\ imageData.height = 2
    /\ LET g == GrayOf(imageData)
       IN /\ g[1] # g[9]
          /\ TileLut(g, 16, 2, clipLimit, 8, 0, 0)
                = TileLut(g, 16, 2, clipLimit, 8, 1, 0)

\* C28: morphologyOpen adds no foreground: every pixel that is foreground in
\* the opened mask is foreground in the mask it was given.
C28_OpenAddsNothing ==
    pc = "opened" =>
        \A p \in DOMAIN opened : opened[p] # 0 => binary[p] # 0

\* of a cross of 5 pixels the 3 interior ones are kept, the 2 on the border
\* are removed
C28_Witness ==
    /\ pc = "opened"
    /\ Cardinality(Foreground(binary)) = 5
    /\ Cardinality(Foreground(opened)) = 3

\* ---------------------------------------------------------------------------
\* C29: calculateSkewAngle changes its best candidate only in a step that
\* raises maxVariance strictly, so among candidates of equal maximal variance
\* the first one of the sweep is returned; when every candidate has variance
\* 0 (an image without edge energy) the result is the first coarse candidate,
\* -20 degrees, and not 0 degrees.
C29_FirstMaximumWins ==
    /\ [](pc = "done" =>
            /\ bestAngle = history.first
            /\ (history.max = 0 => bestAngle = CoarseFirst /\ bestAngle # 0))
    /\ [][bestAngle' # bestAngle => maxVariance' > maxVariance]_vars

\* the sweep has finished on an image whose every projection variance was 0
C29_Witness ==
    /\ pc = "done"
    /\ history.max = 0
    /\ maxVariance = 0
    /\ bestAngle = CoarseFirst

(***************************************************************************)
(* updateLoopClassifications applied to an arbitrary list of loops.        *)
(***************************************************************************)
MaxClassified == 4

ClassifyPoints ==
    {[x |-> 0, y |-> 0], [x |-> 0, y |-> 30], [x |-> 10, y |-> 0],
     [x |-> 10, y |-> 30], [x |-> 20, y |-> 5]}

\* what a loop carries besides its id and its position
LoopKinds ==
    {[morphology |-> "Normal", diameter |-> 10, isOutermost |-> FALSE],
     [morphology |-> "Giant", diameter |-> 50, isOutermost |-> TRUE]}

\* the loop with id k at point p, of kind c
LoopAt(k, p, c) ==
    [id |-> k, x |-> p.x, y |-> p.y, morphology |-> c.morphology,
     diameter |-> c.diameter, isOutermost |-> c.isOutermost]

\* the list of the loops with ids 1..n that f places and describes
LoopList(n, f) == [k \in 1..n |-> LoopAt(k, f[k][1], f[k][2])]

InitClassify ==
    /\ pc = "start"
    /\ IdleFiles /\ IdleView
    /\ \E n \in 0..MaxClassified :
          \E f \in [1..n -> ClassifyPoints \X LoopKinds] : loops = LoopList(n, f)
    /\ secondaries = <<>> /\ roi = Null /\ rulers = <<>>
    /\ scale = 1 /\ rotation = 0
    /\ IdleDetect /\ IdleEnhance /\ IdleSkew /\ IdleCall

\* updateLoopClassifications(loops)
Classify ==
    /\ pc = "start"
    /\ loops' = updateLoopClassifications(loops)
    /\ log' = [log EXCEPT !.handed = loops]
    /\ pc' = "classified"
    /\ UNCHANGED <<fileVars, secondaries, roi, rulers, scale, rotation, image,
                   activeTool, isEnhanced, enhancedImageUrl, isEnhancing,
                   isAligning, rulerStart, pending, detectVars, enhanceVars,
                   skewVars, callVars>>

NextClassify == Classify

SpecClassify == InitClassify /\ [][NextClassify]_vars

\* a loop without its flag
Annotation(l) ==
    [id |-> l.id, x |-> l.x, y |-> l.y, morphology |-> l.morphology,
     diameter |-> l.diameter]

\* the output holds every annotation of the input as often as the input
\* does, with the fields of the input; it is in ascending x for 3 or more
\* loops and in input order otherwise
SameAnnotations(input, output) ==
    /\ Len(output) = Len(input)
    /\ \A k \in 1..Len(output) : DOMAIN output[k] = DOMAIN input[1]
    /\ \A i \in 1..Len(input) :
          Cardinality({j \in 1..Len(output) :
                          Annotation(output[j]) = Annotation(input[i])})
            = Cardinality({j \in 1..Len(input) :
                          Annotation(input[j]) = Annotation(input[i])})
    /\ IF Len(input) >= 3
       THEN \A j, k \in 1..Len(output) : j < k => output[j].x <= output[k].x
       ELSE \A k \in 1..Len(input) :
               Annotation(output[k]) = Annotation(input[k])

Leftmost(ls) == {k \in 1..Len(ls) : \A j \in 1..Len(ls) : ls[k].x <= ls[j].x}

Rightmost(ls) == {k \in 1..Len(ls) : \A j \in 1..Len(ls) : ls[k].x >= ls[j].x}

\* C30 as stated: updateLoopClassifications returns the annotations of its
\* input, each once and unaltered but for isOutermost and the order, and
\* every loop whose x is the smallest or the largest of the list is marked
\* outermost.
C30_EveryExtremeIsOutermost ==
    pc = "classified" =>
        /\ SameAnnotations(log.handed, loops)
        /\ \A k \in Leftmost(loops) \cup Rightmost(loops) : loops[k].isOutermost

\* C30: updateLoopClassifications returns the annotations of its input, each
\* once and unaltered but for isOutermost and the order (ascending x for 3
\* or more loops, input order otherwise), and of the loops with the smallest
\* x and of those with the largest x at least one each is marked outermost:
\* the first and the last of a sorted output.
C30_AnnotationsKept ==
    pc = "classified" =>
        /\ SameAnnotations(log.handed, loops)
        /\ loops # <<>> =>
              /\ \E k \in Leftmost(loops) : loops[k].isOutermost
              /\ \E k \in Rightmost(loops) : loops[k].isOutermost
              /\ Len(loops) >= 3 =>
                    loops[1].isOutermost /\ loops[Len(loops)].isOutermost

\* three loops were classified, two of them share the smallest x, and the
\* one of these that is retracted is marked not outermost
C30_Witness ==
    /\ pc = "classified"
    /\ Len(loops) = 3
    /\ Cardinality(Leftmost(loops)) = 2
    /\ loops[1].isOutermost /\ ~loops[2].isOutermost /\ loops[3].isOutermost
    /\ \E k \in 1..3 : log.handed[k].id # loops[k].id

====
